---- MODULE Spec2Model ----
(***************************************************************************)
(* Model of the lockbox back-end: the box service's owner and guardian     *)
(* handlers over the box store (box-service/src/handlers/box_handlers.rs)  *)
(* and the invitation service's redemption and refresh over the invitation *)
(* store.  A handler runs from its store read to its store write without   *)
(* suspending; the write is a separate step, so that two requests that     *)
(* read the same stored record can interleave.                             *)
(***************************************************************************)
EXTENDS Integers, Sequences, FiniteSets, TLC

(***************************************************************************)
(* Bounds                                                                  *)
(***************************************************************************)
MaxVersion == 4
MaxShards == 2
MaxShardVersion == 7
MaxClock == 48
MaxViews == 2

(***************************************************************************)
(* Option<T>: None is the empty tuple, Some(x) the one-element tuple.      *)
(***************************************************************************)
None == <<>>
Some(x) == <<x>>
IsSome(o) == o # None
IsNone(o) == o = None

BoxIds == {"b1"}
Owner == "u1"
OwnerCallers == {"u1", "g1"}
GuardianCallers == {"g1", "g2", "u1"}
GuardianIds == {"", "g1", "g2"}
InvitationIds == {"i1", "i2"}
DocumentIds == {"d1"}
DocumentMetas == {"m1", "m2"}

InviteIds == {"v1", "v2"}
InviteCodes == {"AAAAAAAA", "BBBBBBBB"}
Creator == "u1"
Redeemers == {"u2", "u3", "u4"}
RefreshCallers == {"u1", "u2"}
ExpiryHours == 48
TickHours == 24

\* Reminder intervals in hours, the grace period before the first reminder,
\* the width of a reminder window and the period of the sweep's timer
REMINDER_1_HOURS == 24
REMINDER_2_HOURS == 72
REMINDER_3_HOURS == 168
GRACE_PERIOD_HOURS == 1
WindowHours == 6
SweepHours == 6
MaxSweepClock == 180
MaxNagClock == 36
MaxS6Clock == 32
MaxHoursBefore == 30
MaxHours == 210
ReminderBoxIds == {"b1", "b2"}
ScanOrder == <<"b1", "b2">>
PushOutcomes == {"sent", "send_error", "no_token", "lookup_error"}
TokenHolders == {{"g1", "g2"}, {"g1"}}

\* the records of a batch delivered to the notification worker: a message
\* that does not parse as a BoxLockedEvent, or an event with its event_type
\* and guardian_ids; and what can fail while a record is handled
MaxRecords == 2
Unparsable == [parsed |-> FALSE]
EventTypes == {"box_locked", "box_unlocked"}
GuardianIdLists == {<<>>, <<"g2">>, <<"g1", "g2">>}
Records ==
    {Unparsable} \cup
    [parsed : {TRUE}, event_type : EventTypes, box_id : BoxIds,
     guardian_ids : GuardianIdLists]
Faults == {"none", "lookup", "send"}

VARIABLES boxes, created, inflight, now, invitations, redeem, refresh, views,
          inviteEvents, boxEvents, lockReply, sweep, reminders, pushTokens, notify

boxVars == <<boxes, created, inflight, boxEvents, lockReply>>
invVars == <<invitations, redeem, refresh, views, inviteEvents>>
remVars == <<sweep, reminders, pushTokens, notify>>
vars == <<boxes, created, inflight, now, invitations, redeem, refresh, views,
          inviteEvents, boxEvents, lockReply, sweep, reminders, pushTokens, notify>>

(***************************************************************************)
(* Requests' inputs                                                        *)
(***************************************************************************)
CreateBoxRequests == [name : {"n1"}, description : {"e1"}]

UpdateBoxRequests ==
    [name : {None, Some("n2")},
     description : {None, Some("e2")},
     unlock_instructions : {None, Some(None), Some(Some("i1"))},
     is_locked : {None, Some(TRUE), Some(FALSE)}]

GuardianPayloads ==
    [id : GuardianIds, invitation_id : InvitationIds,
     encrypted_shard : {None}, shard_hash : {None},
     shard_fetched_at : {None}, shard_accepted_at : {None},
     lock_data_received_at : {None}]

DocumentPayloads == [id : DocumentIds, meta : DocumentMetas]

ShardEntries ==
    { [guardian_id |-> "g1", shard |-> "a", shard_hash |-> "ha"],
      [guardian_id |-> "g2", shard |-> "b", shard_hash |-> "hb"],
      [guardian_id |-> "", shard |-> "c", shard_hash |-> "hc"],
      [guardian_id |-> "g1", shard |-> "x", shard_hash |-> "hx"] }

ShardLists == UNION { [1..n -> ShardEntries] : n \in 0..MaxShards }

LockBoxRequests == [shards : ShardLists, shard_threshold : 0..(MaxShards + 1)]

\* The requests the owner and the guardians send in the explored runs; the
\* handlers' answers are checked over the whole request sets above.
ShardOf(guardian_id) == CHOOSE e \in ShardEntries : e.guardian_id = guardian_id /\ e.shard # "x"

SentGuardians ==
    { g \in GuardianPayloads :
        /\ g.id = "g1" => g.invitation_id = "i1"
        /\ g.id = "g2" => g.invitation_id = "i2" }

SentUpdateBoxRequests ==
    { r \in UpdateBoxRequests :
        Cardinality({f \in {"name", "description", "unlock_instructions", "is_locked"} :
                        IsSome(r[f])}) <= 1 }
    \cup { [name |-> Some("n2"), description |-> None,
            unlock_instructions |-> None, is_locked |-> Some(TRUE)] }

SentLockBoxRequests ==
    { r \in LockBoxRequests :
        /\ \A i \in 1..Len(r.shards) : r.shards[i].shard # "x"
        /\ \A i, j \in 1..Len(r.shards) : i < j => r.shards[i] # r.shards[j]
        /\ r.shard_threshold \in 1..Len(r.shards) }
    \cup { [shards |-> <<ShardOf("g1")>>, shard_threshold |-> 0],
           [shards |-> <<[guardian_id |-> "g1", shard |-> "x", shard_hash |-> "hx"],
                         ShardOf("g1")>>, shard_threshold |-> 1] }

(***************************************************************************)
(* Helpers over sequences                                                  *)
(***************************************************************************)
\* iter().position(..): the first of the matching indices, 0 if none matches
FirstOf(indices) ==
    IF indices = {} THEN 0 ELSE CHOOSE i \in indices : \A j \in indices : i <= j

\* guardians.iter().position(|g| g.id == id)
GuardianIndex(guardians, id) ==
    FirstOf({i \in DOMAIN guardians : guardians[i].id = id})

\* documents.iter().position(|d| d.id == id)
DocumentIndex(documents, id) ==
    FirstOf({i \in DOMAIN documents : documents[i].id = id})

\* Vec::remove(index)
RemoveAt(s, i) == [j \in 1..(Len(s) - 1) |-> IF j < i THEN s[j] ELSE s[j + 1]]

\* guardians.iter().filter(|g| g.shard_fetched_at.is_some()).count()
FetchedCount(guardians) ==
    Cardinality({i \in DOMAIN guardians : IsSome(guardians[i].shard_fetched_at)})

(***************************************************************************)
(* A handler's outcome: the response status, and the store call it makes   *)
(* after its checks ("none", "create", "update" or "delete") with the      *)
(* record it hands to the store.                                           *)
(***************************************************************************)
Respond(status, body) == [status |-> status, call |-> "none", rec |-> None, body |-> body]
Fail(status) == Respond(status, None)
StoreCall(call, rec, body) == [status |-> "Ok", call |-> call, rec |-> Some(rec), body |-> body]

(***************************************************************************)
(* Owner handlers.  got is the result of store.get_box(id): None when the  *)
(* store has no such box (the handler returns the store's NotFound).       *)
(***************************************************************************)
\* POST /boxes/owned
create_box(id, user_id, payload, t) ==
    StoreCall("create",
        [id |-> id,
         name |-> payload.name,
         description |-> payload.description,
         is_locked |-> FALSE,
         locked_at |-> None,
         updated_at |-> t,
         owner_id |-> user_id,
         documents |-> <<>>,
         guardians |-> <<>>,
         unlock_instructions |-> None,
         version |-> 0,
         shard_threshold |-> None,
         shards_fetched |-> None,
         total_shards |-> None,
         shards_deleted_at |-> None],
        None)

\* GET /boxes/owned/:id
get_box(got, user_id) ==
    IF got = None THEN Fail("NotFound")
    ELSE IF got[1].owner_id # user_id THEN Fail("Unauthorized")
    ELSE Respond("Ok", got)

\* the "update fields if provided" part of update_box
UpdatedFields(box_rec, payload, t) ==
    LET b1 == IF IsSome(payload.name)
              THEN [box_rec EXCEPT !.name = payload.name[1]]
              ELSE box_rec
        b2 == IF IsSome(payload.description)
              THEN [b1 EXCEPT !.description = payload.description[1]]
              ELSE b1
        b3 == IF IsSome(payload.unlock_instructions)
              THEN [b2 EXCEPT !.unlock_instructions = payload.unlock_instructions[1]]
              ELSE b2
    IN  IF IsSome(payload.is_locked)
        THEN [b3 EXCEPT
                !.locked_at = IF payload.is_locked[1] /\ ~box_rec.is_locked
                              THEN Some(t) ELSE @,
                !.is_locked = payload.is_locked[1]]
        ELSE b3

HasOtherUpdates(payload) ==
    \/ IsSome(payload.name)
    \/ IsSome(payload.description)
    \/ IsSome(payload.unlock_instructions)

\* update_box without the check that refuses to unlock a locked box
update_box_unlocks(got, user_id, payload, t) ==
    IF got = None THEN Fail("NotFound")
    ELSE LET box_rec == got[1]
         IN  IF box_rec.owner_id # user_id THEN Fail("Unauthorized")
             ELSE IF box_rec.is_locked /\ HasOtherUpdates(payload) THEN Fail("BadRequest")
             ELSE StoreCall("update", UpdatedFields(box_rec, payload, t), None)

\* PATCH /boxes/owned/:id
update_box(got, user_id, payload, t) ==
    IF got = None THEN Fail("NotFound")
    ELSE LET box_rec == got[1]
         IN  IF box_rec.owner_id # user_id THEN Fail("Unauthorized")
             ELSE IF box_rec.is_locked /\ HasOtherUpdates(payload) THEN Fail("BadRequest")
             ELSE IF IsSome(payload.is_locked) /\ box_rec.is_locked /\ ~payload.is_locked[1]
                  THEN Fail("BadRequest")
             ELSE StoreCall("update", UpdatedFields(box_rec, payload, t), None)

\* the payload's first shard whose guardian_id is the guardian's id
FindShard(shards, guardian_id) ==
    LET i == FirstOf({i \in DOMAIN shards : shards[i].guardian_id = guardian_id})
    IN  IF i = 0 THEN None ELSE Some(shards[i])

\* some guardian has no shard in the payload
MissingShard(box_rec, payload) ==
    \E i \in 1..Len(box_rec.guardians) :
        FindShard(payload.shards, box_rec.guardians[i].id) = None

\* the first guardian, in guardian order, that has no shard in the payload
FirstMissing(box_rec, payload) ==
    box_rec.guardians[FirstOf({i \in 1..Len(box_rec.guardians) :
        FindShard(payload.shards, box_rec.guardians[i].id) = None})].id

\* an error response with its message
Refuse(status, message) == Respond(status, Some([message |-> message]))

\* the responses with which lock_box refuses a request
NotOwner == Refuse("Unauthorized", "You don't have permission to lock this box")
AlreadyLocked == Refuse("BadRequest", "Cannot lock an already locked box.")
ShardCount == Refuse("BadRequest", "Shard count must match the number of guardians.")
ThresholdRange ==
    Refuse("BadRequest", "Shard threshold must be between 1 and the number of guardians.")
MissingShardFor(guardian_id) ==
    Respond("BadRequest",
            Some([message |-> "Missing shard for guardian", guardian |-> guardian_id]))

\* a lock that hands shard i of the payload to guardian i
LockedRecord_by_position(box_rec, payload, t) ==
    [box_rec EXCEPT
        !.guardians =
            [i \in 1..Len(box_rec.guardians) |->
                [box_rec.guardians[i] EXCEPT
                    !.encrypted_shard = Some(payload.shards[i].shard),
                    !.shard_hash = Some(payload.shards[i].shard_hash),
                    !.shard_fetched_at = None]],
        !.is_locked = TRUE,
        !.locked_at = Some(t),
        !.updated_at = t,
        !.shard_threshold = Some(payload.shard_threshold),
        !.total_shards = Some(Len(payload.shards)),
        !.shards_fetched = Some(0),
        !.shards_deleted_at = None]

\* the record lock_box hands to the store
LockedRecord(box_rec, payload, t) ==
    [box_rec EXCEPT
        !.guardians =
            [i \in 1..Len(box_rec.guardians) |->
                LET shard == FindShard(payload.shards, box_rec.guardians[i].id)[1]
                IN  [box_rec.guardians[i] EXCEPT
                        !.encrypted_shard = Some(shard.shard),
                        !.shard_hash = Some(shard.shard_hash),
                        !.shard_fetched_at = None]],
        !.is_locked = TRUE,
        !.locked_at = Some(t),
        !.updated_at = t,
        !.shard_threshold = Some(payload.shard_threshold),
        !.total_shards = Some(Len(payload.shards)),
        !.shards_fetched = Some(0),
        !.shards_deleted_at = None]

\* lock_box comparing the shard count before it looks at is_locked
lock_box_counts_first(got, user_id, payload, t) ==
    IF got = None THEN Fail("NotFound")
    ELSE LET box_rec == got[1]
         IN  IF box_rec.owner_id # user_id THEN NotOwner
             ELSE IF Len(payload.shards) # Len(box_rec.guardians) THEN ShardCount
             ELSE IF box_rec.is_locked THEN AlreadyLocked
             ELSE IF payload.shard_threshold < 1 \/ payload.shard_threshold > Len(payload.shards)
                  THEN ThresholdRange
             ELSE IF MissingShard(box_rec, payload)
                  THEN MissingShardFor(FirstMissing(box_rec, payload))
             ELSE StoreCall("update", LockedRecord(box_rec, payload, t), None)

\* lock_box without the check that refuses an already locked box
lock_box_relocks(got, user_id, payload, t) ==
    IF got = None THEN Fail("NotFound")
    ELSE LET box_rec == got[1]
         IN  IF box_rec.owner_id # user_id THEN NotOwner
             ELSE IF Len(payload.shards) # Len(box_rec.guardians) THEN ShardCount
             ELSE IF payload.shard_threshold < 1 \/ payload.shard_threshold > Len(payload.shards)
                  THEN ThresholdRange
             ELSE IF MissingShard(box_rec, payload)
                  THEN MissingShardFor(FirstMissing(box_rec, payload))
             ELSE StoreCall("update", LockedRecord(box_rec, payload, t), None)

\* a lock that does not check the threshold
lock_box_any_threshold(got, user_id, payload, t) ==
    IF got = None THEN Fail("NotFound")
    ELSE LET box_rec == got[1]
         IN  IF box_rec.owner_id # user_id THEN NotOwner
             ELSE IF box_rec.is_locked THEN AlreadyLocked
             ELSE IF Len(payload.shards) # Len(box_rec.guardians) THEN ShardCount
             ELSE IF MissingShard(box_rec, payload)
                  THEN MissingShardFor(FirstMissing(box_rec, payload))
             ELSE StoreCall("update", LockedRecord(box_rec, payload, t), None)

\* POST /boxes/owned/:id/lock
lock_box(got, user_id, payload, t) ==
    IF got = None THEN Fail("NotFound")
    ELSE LET box_rec == got[1]
         IN  IF box_rec.owner_id # user_id THEN NotOwner
             ELSE IF box_rec.is_locked THEN AlreadyLocked
             ELSE IF Len(payload.shards) # Len(box_rec.guardians) THEN ShardCount
             ELSE IF payload.shard_threshold < 1 \/ payload.shard_threshold > Len(payload.shards)
                  THEN ThresholdRange
             ELSE IF MissingShard(box_rec, payload)
                  THEN MissingShardFor(FirstMissing(box_rec, payload))
             ELSE StoreCall("update", LockedRecord(box_rec, payload, t), None)

\* a delete that does not ask who calls
delete_box_any_caller(got, user_id) ==
    IF got = None THEN Fail("NotFound")
    ELSE StoreCall("delete", got[1], None)

\* DELETE /boxes/owned/:id
delete_box(got, user_id) ==
    IF got = None THEN Fail("NotFound")
    ELSE IF got[1].owner_id # user_id THEN Fail("Unauthorized")
    ELSE StoreCall("delete", got[1], None)

\* an upsert that appends without looking for the guardian's id
UpsertGuardian_appends(box_rec, guardian) ==
    [box_rec EXCEPT !.guardians = Append(@, guardian)]

\* replace the guardian with the payload's id, or append the payload
UpsertGuardian(box_rec, guardian) ==
    LET guardian_index == GuardianIndex(box_rec.guardians, guardian.id)
    IN  IF guardian_index # 0
        THEN [box_rec EXCEPT !.guardians[guardian_index] = guardian]
        ELSE [box_rec EXCEPT !.guardians = Append(@, guardian)]

\* update_or_add_guardian without the locked-box check
update_or_add_guardian_on_locked(got, owner_id, guardian) ==
    IF got = None THEN Fail("NotFound")
    ELSE IF got[1].owner_id # owner_id THEN Fail("Unauthorized")
    ELSE StoreCall("update", UpsertGuardian(got[1], guardian), None)

\* PATCH /boxes/owned/:id/guardian
update_or_add_guardian(got, owner_id, guardian) ==
    IF got = None THEN Fail("NotFound")
    ELSE LET box_rec == got[1]
         IN  IF box_rec.owner_id # owner_id THEN Fail("Unauthorized")
             ELSE IF box_rec.is_locked THEN Fail("BadRequest")
             ELSE StoreCall("update", UpsertGuardian(box_rec, guardian), None)

\* PATCH /boxes/owned/:id/document
update_or_add_document(got, owner_id, document) ==
    IF got = None THEN Fail("NotFound")
    ELSE LET box_rec == got[1]
             document_index == DocumentIndex(box_rec.documents, document.id)
         IN  IF box_rec.owner_id # owner_id THEN Fail("Unauthorized")
             ELSE IF box_rec.is_locked THEN Fail("BadRequest")
             ELSE IF document_index # 0
                  THEN StoreCall("update",
                          [box_rec EXCEPT !.documents[document_index] = document], None)
                  ELSE StoreCall("update",
                          [box_rec EXCEPT !.documents = Append(@, document)], None)

\* DELETE /boxes/owned/:id/document/:document_id
delete_document_from_box(got, owner_id, document_id) ==
    IF got = None THEN Fail("NotFound")
    ELSE LET box_rec == got[1]
             document_index == DocumentIndex(box_rec.documents, document_id)
         IN  IF box_rec.owner_id # owner_id THEN Fail("Unauthorized")
             ELSE IF box_rec.is_locked THEN Fail("BadRequest")
             ELSE IF document_index = 0 THEN Fail("NotFound")
             ELSE StoreCall("update",
                     [box_rec EXCEPT !.documents = RemoveAt(@, document_index)], None)

\* DELETE /boxes/owned/:id/guardian/:guardian_id
delete_guardian_from_box(got, owner_id, guardian_id) ==
    IF got = None THEN Fail("NotFound")
    ELSE LET box_rec == got[1]
             guardian_index ==
                 FirstOf({i \in DOMAIN box_rec.guardians :
                             \/ box_rec.guardians[i].id = guardian_id
                             \/ box_rec.guardians[i].invitation_id = guardian_id})
         IN  IF box_rec.owner_id # owner_id THEN Fail("Unauthorized")
             ELSE IF box_rec.is_locked THEN Fail("BadRequest")
             ELSE IF guardian_index = 0 THEN Fail("NotFound")
             ELSE StoreCall("update",
                     [box_rec EXCEPT !.guardians = RemoveAt(@, guardian_index)],
                     Some(box_rec.guardians[guardian_index]))

(***************************************************************************)
(* Guardian handlers                                                       *)
(***************************************************************************)
\* a fetch that removes the shard it returns
fetch_guardian_shard_consumes(got, user_id) ==
    IF got = None THEN Fail("NotFound")
    ELSE LET box_rec == got[1]
             guardian_index == GuardianIndex(box_rec.guardians, user_id)
             guardian == box_rec.guardians[guardian_index]
         IN  IF ~box_rec.is_locked THEN Fail("BadRequest")
             ELSE IF guardian_index = 0 THEN Fail("Unauthorized")
             ELSE IF IsNone(guardian.encrypted_shard) THEN Fail("BadRequest")
             ELSE StoreCall("update",
                     [box_rec EXCEPT !.guardians[guardian_index].encrypted_shard = None],
                     Some([encryptedShard |-> guardian.encrypted_shard[1],
                           shardHash |-> guardian.shard_hash,
                           shardFetchedAt |-> guardian.shard_fetched_at,
                           shardThreshold |-> box_rec.shard_threshold[1],
                           totalShards |-> Len(box_rec.guardians)]))

\* GET /boxes/guardian/:id/shard
\* a fetch that looks for the caller among the guardians before it looks at
\* the lock
fetch_guardian_shard_checks_caller_first(got, user_id) ==
    IF got = None THEN Fail("NotFound")
    ELSE LET box_rec == got[1]
             guardian_index == GuardianIndex(box_rec.guardians, user_id)
             total_shards == Len(box_rec.guardians)
             guardian == box_rec.guardians[guardian_index]
         IN  IF guardian_index = 0 THEN Fail("Unauthorized")
             ELSE IF ~box_rec.is_locked THEN Fail("BadRequest")
             ELSE IF IsNone(guardian.encrypted_shard) THEN Fail("BadRequest")
             ELSE Respond("Ok",
                     Some([encryptedShard |-> guardian.encrypted_shard[1],
                           shardHash |-> guardian.shard_hash,
                           shardFetchedAt |-> guardian.shard_fetched_at,
                           shardThreshold |-> IF IsSome(box_rec.shard_threshold)
                                              THEN box_rec.shard_threshold[1]
                                              ELSE total_shards,
                           totalShards |-> total_shards]))

fetch_guardian_shard(got, user_id) ==
    IF got = None THEN Fail("NotFound")
    ELSE LET box_rec == got[1]
             guardian_index == GuardianIndex(box_rec.guardians, user_id)
             total_shards == Len(box_rec.guardians)
             guardian == box_rec.guardians[guardian_index]
         IN  IF ~box_rec.is_locked THEN Fail("BadRequest")
             ELSE IF guardian_index = 0 THEN Fail("Unauthorized")
             ELSE IF IsNone(guardian.encrypted_shard) THEN Fail("BadRequest")
             ELSE Respond("Ok",
                     Some([encryptedShard |-> guardian.encrypted_shard[1],
                           shardHash |-> guardian.shard_hash,
                           shardFetchedAt |-> guardian.shard_fetched_at,
                           shardThreshold |-> IF IsSome(box_rec.shard_threshold)
                                              THEN box_rec.shard_threshold[1]
                                              ELSE total_shards,
                           totalShards |-> total_shards]))

\* an acknowledge that counts the fetched shards before it marks its own
acknowledge_guardian_shard_counts_before(got, user_id, t) ==
    IF got = None THEN Fail("NotFound")
    ELSE LET box_rec == got[1]
             guardian_index == GuardianIndex(box_rec.guardians, user_id)
             total_shards == Len(box_rec.guardians)
             guardian == box_rec.guardians[guardian_index]
             b1 == [box_rec EXCEPT
                      !.guardians[guardian_index].shard_fetched_at = Some(t),
                      !.guardians[guardian_index].encrypted_shard = None]
             fetched_count == FetchedCount(box_rec.guardians)
             b2 == [b1 EXCEPT
                      !.shards_fetched = Some(fetched_count),
                      !.total_shards = Some(total_shards),
                      !.shards_deleted_at = IF fetched_count = total_shards
                                            THEN Some(t) ELSE @]
         IN  IF ~box_rec.is_locked THEN Fail("BadRequest")
             ELSE IF guardian_index = 0 THEN Fail("Unauthorized")
             ELSE IF IsSome(guardian.shard_fetched_at) /\ IsNone(guardian.encrypted_shard)
                  THEN Respond("Ok",
                          Some([shardFetchedAt |-> guardian.shard_fetched_at[1],
                                totalShards |-> total_shards,
                                shardsFetched |-> IF IsSome(box_rec.shards_fetched)
                                                  THEN box_rec.shards_fetched[1] ELSE 0]))
             ELSE IF IsNone(guardian.encrypted_shard) THEN Fail("BadRequest")
             ELSE StoreCall("update", b2,
                     Some([shardFetchedAt |-> t,
                           totalShards |-> total_shards,
                           shardsFetched |-> fetched_count]))

\* an acknowledge that answers a repeated call with the time of that call
acknowledge_guardian_shard_restamps(got, user_id, t) ==
    IF got = None THEN Fail("NotFound")
    ELSE LET box_rec == got[1]
             guardian_index == GuardianIndex(box_rec.guardians, user_id)
             total_shards == Len(box_rec.guardians)
             guardian == box_rec.guardians[guardian_index]
             b1 == [box_rec EXCEPT
                      !.guardians[guardian_index].shard_fetched_at = Some(t),
                      !.guardians[guardian_index].encrypted_shard = None]
             fetched_count == FetchedCount(b1.guardians)
             b2 == [b1 EXCEPT
                      !.shards_fetched = Some(fetched_count),
                      !.total_shards = Some(total_shards),
                      !.shards_deleted_at = IF fetched_count = total_shards
                                            THEN Some(t) ELSE @]
         IN  IF ~box_rec.is_locked THEN Fail("BadRequest")
             ELSE IF guardian_index = 0 THEN Fail("Unauthorized")
             ELSE IF IsSome(guardian.shard_fetched_at) /\ IsNone(guardian.encrypted_shard)
                  THEN Respond("Ok",
                          Some([shardFetchedAt |-> t,
                                totalShards |-> total_shards,
                                shardsFetched |-> fetched_count]))
             ELSE IF IsNone(guardian.encrypted_shard) THEN Fail("BadRequest")
             ELSE StoreCall("update", b2,
                     Some([shardFetchedAt |-> t,
                           totalShards |-> total_shards,
                           shardsFetched |-> fetched_count]))

\* PATCH /boxes/guardian/:id/shard/ack
acknowledge_guardian_shard(got, user_id, t) ==
    IF got = None THEN Fail("NotFound")
    ELSE LET box_rec == got[1]
             guardian_index == GuardianIndex(box_rec.guardians, user_id)
             total_shards == Len(box_rec.guardians)
             guardian == box_rec.guardians[guardian_index]
             b1 == [box_rec EXCEPT
                      !.guardians[guardian_index].shard_fetched_at = Some(t),
                      !.guardians[guardian_index].encrypted_shard = None]
             fetched_count == FetchedCount(b1.guardians)
             b2 == [b1 EXCEPT
                      !.shards_fetched = Some(fetched_count),
                      !.total_shards = Some(total_shards),
                      !.shards_deleted_at = IF fetched_count = total_shards
                                            THEN Some(t) ELSE @]
         IN  IF ~box_rec.is_locked THEN Fail("BadRequest")
             ELSE IF guardian_index = 0 THEN Fail("Unauthorized")
             ELSE IF IsSome(guardian.shard_fetched_at) /\ IsNone(guardian.encrypted_shard)
                  THEN Respond("Ok",
                          Some([shardFetchedAt |-> guardian.shard_fetched_at[1],
                                totalShards |-> total_shards,
                                shardsFetched |-> IF IsSome(box_rec.shards_fetched)
                                                  THEN box_rec.shards_fetched[1] ELSE 0]))
             ELSE IF IsNone(guardian.encrypted_shard) THEN Fail("BadRequest")
             ELSE StoreCall("update", b2,
                     Some([shardFetchedAt |-> t,
                           totalShards |-> total_shards,
                           shardsFetched |-> fetched_count]))

\* an accept that stamps the shard again on a repeated call
accept_guardian_shard_restamps(got, user_id, t) ==
    IF got = None THEN Fail("NotFound")
    ELSE LET box_rec == got[1]
             guardian_index == GuardianIndex(box_rec.guardians, user_id)
         IN  IF ~box_rec.is_locked THEN Fail("BadRequest")
             ELSE IF guardian_index = 0 THEN Fail("Unauthorized")
             ELSE StoreCall("update",
                     [box_rec EXCEPT
                         !.guardians[guardian_index].shard_accepted_at = Some(t),
                         !.updated_at = t],
                     Some([shardAcceptedAt |-> t]))

\* an accept that also takes the shard into the guardian's custody
accept_guardian_shard_takes_custody(got, user_id, t) ==
    IF got = None THEN Fail("NotFound")
    ELSE LET box_rec == got[1]
             guardian_index == GuardianIndex(box_rec.guardians, user_id)
             guardian == box_rec.guardians[guardian_index]
         IN  IF ~box_rec.is_locked THEN Fail("BadRequest")
             ELSE IF guardian_index = 0 THEN Fail("Unauthorized")
             ELSE IF IsSome(guardian.shard_accepted_at)
                  THEN Respond("Ok", Some([shardAcceptedAt |-> guardian.shard_accepted_at[1]]))
             ELSE StoreCall("update",
                     [box_rec EXCEPT
                         !.guardians[guardian_index].shard_accepted_at = Some(t),
                         !.guardians[guardian_index].shard_fetched_at = Some(t),
                         !.guardians[guardian_index].encrypted_shard = None,
                         !.updated_at = t],
                     Some([shardAcceptedAt |-> t]))

\* POST /boxes/guardian/:id/shard/accept
accept_guardian_shard(got, user_id, t) ==
    IF got = None THEN Fail("NotFound")
    ELSE LET box_rec == got[1]
             guardian_index == GuardianIndex(box_rec.guardians, user_id)
             guardian == box_rec.guardians[guardian_index]
         IN  IF ~box_rec.is_locked THEN Fail("BadRequest")
             ELSE IF guardian_index = 0 THEN Fail("Unauthorized")
             ELSE IF IsSome(guardian.shard_accepted_at)
                  THEN Respond("Ok", Some([shardAcceptedAt |-> guardian.shard_accepted_at[1]]))
             ELSE StoreCall("update",
                     [box_rec EXCEPT
                         !.guardians[guardian_index].shard_accepted_at = Some(t),
                         !.updated_at = t],
                     Some([shardAcceptedAt |-> t]))

(***************************************************************************)
(* Reminder worker: the window function and the pass over one box.  The    *)
(* clock counts whole hours, so the whole hours between two instants are   *)
(* their difference.                                                       *)
(***************************************************************************)
\* a window function whose windows include their last hour
determine_reminder_number_inclusive(hours_since_shard) ==
    IF hours_since_shard < GRACE_PERIOD_HOURS THEN 0
    ELSE IF /\ hours_since_shard >= REMINDER_1_HOURS
            /\ hours_since_shard <= REMINDER_1_HOURS + WindowHours THEN 1
    ELSE IF /\ hours_since_shard >= REMINDER_2_HOURS
            /\ hours_since_shard <= REMINDER_2_HOURS + WindowHours THEN 2
    ELSE IF /\ hours_since_shard >= REMINDER_3_HOURS
            /\ hours_since_shard <= REMINDER_3_HOURS + WindowHours THEN 3
    ELSE 0

\* a window function that follows its doc comment: reminder 1 from 24 hours
\* until 72, reminder 2 until 168, reminder 3 from then on
determine_reminder_number_until_next(hours_since_shard) ==
    IF hours_since_shard < GRACE_PERIOD_HOURS THEN 0
    ELSE IF hours_since_shard >= REMINDER_3_HOURS THEN 3
    ELSE IF hours_since_shard >= REMINDER_2_HOURS THEN 2
    ELSE IF hours_since_shard >= REMINDER_1_HOURS THEN 1
    ELSE 0

determine_reminder_number(hours_since_shard) ==
    IF hours_since_shard < GRACE_PERIOD_HOURS THEN 0
    ELSE IF /\ hours_since_shard >= REMINDER_1_HOURS
            /\ hours_since_shard < REMINDER_1_HOURS + WindowHours THEN 1
    ELSE IF /\ hours_since_shard >= REMINDER_2_HOURS
            /\ hours_since_shard < REMINDER_2_HOURS + WindowHours THEN 2
    ELSE IF /\ hours_since_shard >= REMINDER_3_HOURS
            /\ hours_since_shard < REMINDER_3_HOURS + WindowHours THEN 3
    ELSE 0

\* the guardians of box_rec from the i-th on, as the loop of process_box
\* handles them at time t; push[i] is what the push-token lookup and the
\* push send do for the i-th guardian if they are called.  The log has one
\* entry for each guardian the loop computed a reminder number for.
RECURSIVE process_guardians(_, _, _, _, _)
process_guardians(box_rec, locked_at, push, t, i) ==
    IF i > Len(box_rec.guardians) THEN [status |-> "Ok", log |-> <<>>]
    ELSE LET guardian == box_rec.guardians[i]
             shard_sent_at == IF IsSome(guardian.lock_data_received_at)
                              THEN guardian.lock_data_received_at[1]
                              ELSE locked_at
             hours_since_shard == t - shard_sent_at
             reminder_number == determine_reminder_number(hours_since_shard)
             entry == [box_id |-> box_rec.id, guardian_id |-> guardian.id,
                       hours_since_shard |-> hours_since_shard,
                       reminder_number |-> reminder_number,
                       outcome |-> IF reminder_number = 0 THEN "not_due" ELSE push[i]]
             rest == process_guardians(box_rec, locked_at, push, t, i + 1)
         IN  IF IsSome(guardian.shard_accepted_at) THEN rest
             ELSE IF reminder_number # 0 /\ push[i] = "lookup_error"
                  THEN [status |-> "Err", log |-> <<entry>>]
             ELSE [status |-> rest.status, log |-> <<entry>> \o rest.log]

\* a pass that does not look at shard_accepted_at
process_box_nags(box_rec, push, t) ==
    IF box_rec.locked_at = None THEN [status |-> "Ok", log |-> <<>>]
    ELSE process_guardians(
             [box_rec EXCEPT !.guardians =
                 [i \in DOMAIN @ |-> [@[i] EXCEPT !.shard_accepted_at = None]]],
             box_rec.locked_at[1], push, t, 1)

process_box(box_rec, push, t) ==
    IF box_rec.locked_at = None THEN [status |-> "Ok", log |-> <<>>]
    ELSE process_guardians(box_rec, box_rec.locked_at[1], push, t, 1)

\* the entries of a log for which the push send was called
Sends(log) ==
    LET sends == SelectSeq(log, LAMBDA e : e.outcome \in {"sent", "send_error"})
    IN  [i \in DOMAIN sends |->
            [box_id |-> sends[i].box_id, guardian_id |-> sends[i].guardian_id,
             reminder_number |-> sends[i].reminder_number]]

\* a lookup that finds a token for every guardian
PushResults_any_token(tokens, guardian_id) ==
    {"sent", "send_error", "lookup_error"}

\* what the lookup of a guardian's push tokens and the send that follows it
\* can come to, the users in tokens being those with a registered token
PushResults(tokens, guardian_id) ==
    IF guardian_id \in tokens
    THEN {"sent", "send_error", "lookup_error"}
    ELSE {"no_token", "lookup_error"}

\* BoxStore::scan_locked_boxes
BoxStore_scan_locked_boxes(store) ==
    LET ids == SelectSeq(ScanOrder, LAMBDA id :
                   id \in DOMAIN store /\ IsSome(store[id]) /\ store[id][1].is_locked)
    IN  [i \in DOMAIN ids |-> store[ids[i]][1]]

\* no sweep has run
NoSweep == [pc |-> "idle", at |-> None, found |-> <<>>, next |-> 1, log |-> <<>>]

(***************************************************************************)
(* Notification worker.  fault is what fails while the record is handled,  *)
(* if the call that can fail is made.                                      *)
(***************************************************************************)
\* PushTokenStore::get_push_tokens: the listed users that have a token
PushTokenStore_get_push_tokens(tokens, user_ids) ==
    SelectSeq(user_ids, LAMBDA user_id : user_id \in tokens)

handle_box_locked(tokens, event, fault) ==
    IF event.guardian_ids = <<>> THEN [status |-> "Ok", sent |-> <<>>]
    ELSE IF fault = "lookup" THEN [status |-> "TokenLookupFailed", sent |-> <<>>]
    ELSE IF PushTokenStore_get_push_tokens(tokens, event.guardian_ids) = <<>>
         THEN [status |-> "Ok", sent |-> <<>>]
    ELSE IF fault = "send" THEN [status |-> "SendFailed", sent |-> <<>>]
    ELSE [status |-> "Ok",
          sent |-> PushTokenStore_get_push_tokens(tokens, event.guardian_ids)]

\* the loop of the notification handler from the i-th record on: for each
\* record, whether it was handled and to whom a notification was sent
RECURSIVE handle_records(_, _, _, _)
handle_records(records, faults, tokens, i) ==
    IF i > Len(records) THEN <<>>
    ELSE LET record == records[i]
             entry == IF ~record.parsed
                      THEN [handled |-> "unparsed", sent |-> <<>>]
                      ELSE IF record.event_type # "box_locked"
                      THEN [handled |-> "unexpected", sent |-> <<>>]
                      ELSE LET out == handle_box_locked(tokens, record, faults[i])
                           IN  [handled |-> out.status, sent |-> out.sent]
         IN  <<entry>> \o handle_records(records, faults, tokens, i + 1)

\* a handler that returns the first error of handle_box_locked
notification_handler_propagates(records, faults, tokens) ==
    LET log == handle_records(records, faults, tokens, 1)
        failed == {i \in DOMAIN log : log[i].handled \in {"TokenLookupFailed", "SendFailed"}}
        first == FirstOf(failed)
    IN  IF failed = {} THEN [status |-> "Ok", log |-> log]
        ELSE [status |-> "Err", log |-> SubSeq(log, 1, first)]

notification_handler(records, faults, tokens) ==
    [status |-> "Ok", log |-> handle_records(records, faults, tokens, 1)]

(***************************************************************************)
(* Box store: create, get, update with the optimistic version check,       *)
(* delete.                                                                 *)
(***************************************************************************)
BoxStore_get(store, id) == store[id]

BoxStore_create(store, rec) ==
    [status |-> "Ok", store |-> [store EXCEPT ![rec.id] = Some(rec)]]

\* an update without the version check: the last write wins
BoxStore_update_unchecked(store, rec) ==
    IF store[rec.id] = None
    THEN [status |-> "NotFound", store |-> store]
    ELSE [status |-> "Ok",
          store |-> [store EXCEPT ![rec.id] = Some([rec EXCEPT !.version = @ + 1])]]

BoxStore_update(store, rec) ==
    IF store[rec.id] = None
    THEN [status |-> "NotFound", store |-> store]
    ELSE IF store[rec.id][1].version # rec.version
    THEN [status |-> "Conflict", store |-> store]
    ELSE [status |-> "Ok",
          store |-> [store EXCEPT ![rec.id] = Some([rec EXCEPT !.version = @ + 1])]]

BoxStore_delete(store, id) ==
    [status |-> "Ok", store |-> [store EXCEPT ![id] = None]]

(***************************************************************************)
(* State                                                                   *)
(***************************************************************************)
Idle == [op |-> "idle"]
Slots == DOMAIN inflight

Init ==
    /\ boxes = [id \in BoxIds |-> None]
    /\ created = {}
    /\ inflight = [s \in {1} |-> Idle]
    /\ now = 1
    /\ invitations = [id \in InviteIds |-> None]
    /\ redeem = [c \in Redeemers |-> [pc |-> "idle"]]
    /\ refresh = [pc |-> "idle"]
    /\ views = 0
    /\ inviteEvents = {}
    /\ boxEvents = {}
    /\ lockReply = None
    /\ sweep = NoSweep
    /\ reminders = <<>>
    /\ pushTokens = {}
    /\ notify = None

\* A handler has run from its store read to its store call: it answers at
\* once when it makes no call, and otherwise waits for the store.
Handled(op, out) ==
    /\ IF out.call = "none"
       THEN UNCHANGED inflight
       ELSE \E s \in Slots :
               /\ inflight[s] = Idle
               /\ \A r \in 1..(s - 1) : inflight[r] # Idle
               /\ inflight' = [inflight EXCEPT ![s] = [op |-> op, out |-> out]]
    /\ UNCHANGED <<invVars, remVars, boxEvents, lockReply>>

CreateBox ==
    \E id \in BoxIds \ created, payload \in CreateBoxRequests :
        /\ created' = created \cup {id}
        /\ Handled("create_box", create_box(id, Owner, payload, now))
        /\ UNCHANGED <<boxes, now>>

GetBox ==
    \E id \in BoxIds, user_id \in OwnerCallers :
        /\ Handled("get_box", get_box(BoxStore_get(boxes, id), user_id))
        /\ UNCHANGED <<boxes, created, now>>

UpdateBox ==
    \E id \in BoxIds, user_id \in OwnerCallers, payload \in SentUpdateBoxRequests :
        /\ Handled("update_box", update_box(BoxStore_get(boxes, id), user_id, payload, now))
        /\ UNCHANGED <<boxes, created, now>>

LockBox ==
    \E id \in BoxIds, user_id \in OwnerCallers, payload \in SentLockBoxRequests :
        /\ Handled("lock_box", lock_box(BoxStore_get(boxes, id), user_id, payload, now))
        /\ UNCHANGED <<boxes, created, now>>

DeleteBox ==
    \E id \in BoxIds, user_id \in OwnerCallers :
        /\ Handled("delete_box", delete_box(BoxStore_get(boxes, id), user_id))
        /\ UNCHANGED <<boxes, created, now>>

UpdateGuardian ==
    \E id \in BoxIds, user_id \in OwnerCallers, guardian \in SentGuardians :
        /\ Handled("update_guardian",
                   update_or_add_guardian(BoxStore_get(boxes, id), user_id, guardian))
        /\ UNCHANGED <<boxes, created, now>>

UpdateDocument ==
    \E id \in BoxIds, user_id \in OwnerCallers, document \in DocumentPayloads :
        /\ Handled("update_document",
                   update_or_add_document(BoxStore_get(boxes, id), user_id, document))
        /\ UNCHANGED <<boxes, created, now>>

DeleteDocument ==
    \E id \in BoxIds, user_id \in OwnerCallers, document_id \in DocumentIds :
        /\ Handled("delete_document",
                   delete_document_from_box(BoxStore_get(boxes, id), user_id, document_id))
        /\ UNCHANGED <<boxes, created, now>>

DeleteGuardian ==
    \E id \in BoxIds, user_id \in OwnerCallers, guardian_id \in (GuardianIds \ {""}) \cup InvitationIds :
        /\ Handled("delete_guardian",
                   delete_guardian_from_box(BoxStore_get(boxes, id), user_id, guardian_id))
        /\ UNCHANGED <<boxes, created, now>>

FetchShard ==
    \E id \in BoxIds, user_id \in GuardianCallers :
        /\ Handled("fetch_guardian_shard",
                   fetch_guardian_shard(BoxStore_get(boxes, id), user_id))
        /\ UNCHANGED <<boxes, created, now>>

AcknowledgeShard ==
    \E id \in BoxIds, user_id \in GuardianCallers :
        /\ Handled("acknowledge_guardian_shard",
                   acknowledge_guardian_shard(BoxStore_get(boxes, id), user_id, now))
        /\ UNCHANGED <<boxes, created, now>>

AcceptShard ==
    \E id \in BoxIds, user_id \in GuardianCallers :
        /\ Handled("accept_guardian_shard",
                   accept_guardian_shard(BoxStore_get(boxes, id), user_id, now))
        /\ UNCHANGED <<boxes, created, now>>

\* The store call a waiting handler made completes, and the handler answers.
StoreResult(out) ==
    IF out.call = "create" THEN BoxStore_create(boxes, out.rec[1])
    ELSE IF out.call = "update" THEN BoxStore_update(boxes, out.rec[1])
    ELSE BoxStore_delete(boxes, out.rec[1].id)

NonEmptyId(guardian) == guardian.id # ""

\* the box_locked event lock_box prepares from the record it hands to the store
box_locked(rec, t) ==
    LET notified == SelectSeq(rec.guardians, NonEmptyId)
    IN  [event_type |-> "box_locked",
         box_id |-> rec.id,
         box_name |-> rec.name,
         guardian_ids |-> [i \in 1..Len(notified) |-> notified[i].id],
         timestamp |-> t]

\* a lock that publishes also when another write overtook its own
Published_on_conflict(req, status) ==
    IF req.op = "lock_box" /\ status \in {"Ok", "Conflict"}
    THEN {boxEvents, boxEvents \cup {box_locked(req.out.rec[1], req.out.rec[1].updated_at)}}
    ELSE {boxEvents}

\* a lock_box that publishes whether or not its write succeeded
Published_before_write(req, status) ==
    IF req.op = "lock_box"
    THEN {boxEvents, boxEvents \cup {box_locked(req.out.rec[1], req.out.rec[1].updated_at)}}
    ELSE {boxEvents}

\* the events on the bus after the store call of a request has returned:
\* lock_box publishes once its write has succeeded, and the publish may fail
Published(req, status) ==
    IF req.op = "lock_box" /\ status = "Ok"
    THEN {boxEvents, boxEvents \cup {box_locked(req.out.rec[1], req.out.rec[1].updated_at)}}
    ELSE {boxEvents}

\* a lock_box that answers with the error of a failed publish
lock_box_reply_surfaces(res, id, sent) ==
    IF res.status # "Ok" THEN [status |-> res.status, sent |-> sent, body |-> None]
    ELSE IF ~sent THEN [status |-> "InternalServerError", sent |-> sent, body |-> None]
    ELSE [status |-> "Ok", sent |-> sent, body |-> res.store[id]]

\* what lock_box answers once its store call has returned: the store's error,
\* or the updated box whether or not the event was published
lock_box_reply(res, id, sent) ==
    IF res.status # "Ok" THEN [status |-> res.status, sent |-> sent, body |-> None]
    ELSE [status |-> "Ok", sent |-> sent, body |-> res.store[id]]

\* the last answer of lock_box: its status, whether it carried a box that is
\* locked, and whether box_locked was published
Replied(reply) ==
    [status |-> reply.status,
     locked |-> IsSome(reply.body) /\ reply.body[1].is_locked,
     sent |-> reply.sent]

StoreReturnsWithin(limit) ==
    \E s \in Slots :
        /\ inflight[s] # Idle
        /\ LET req == inflight[s]
               res == StoreResult(req.out)
           IN  /\ \A id \in BoxIds :
                     IsSome(res.store[id]) => res.store[id][1].version <= limit
               /\ boxes' = res.store
               /\ boxEvents' \in Published(req, res.status)
               /\ lockReply' = IF req.op = "lock_box"
                                THEN Some(Replied(lock_box_reply(res, req.out.rec[1].id,
                                                                 boxEvents' # boxEvents)))
                                ELSE lockReply
        /\ inflight' = [inflight EXCEPT ![s] = Idle]
        /\ UNCHANGED <<created, now, invVars, remVars>>

StoreReturns == StoreReturnsWithin(MaxVersion)

Next ==
    \/ CreateBox
    \/ GetBox
    \/ UpdateBox
    \/ LockBox
    \/ DeleteBox
    \/ UpdateGuardian
    \/ UpdateDocument
    \/ DeleteDocument
    \/ DeleteGuardian
    \/ FetchShard
    \/ AcknowledgeShard
    \/ AcceptShard
    \/ StoreReturns

Spec == Init /\ [][Next]_vars

(***************************************************************************)
(* Two requests in flight on a box that has two guardians: the owner has   *)
(* created the box and added g1 and g2, and from there any two of the      *)
(* update, lock, delete, fetch, acknowledge and accept requests may both   *)
(* read the box before either writes.                                      *)
(***************************************************************************)
Stored(store, out) ==
    IF out.call = "create" THEN BoxStore_create(store, out.rec[1]).store
    ELSE BoxStore_update(store, out.rec[1]).store

RaceGuardian(id, invitation_id) ==
    [id |-> id, invitation_id |-> invitation_id,
     encrypted_shard |-> None, shard_hash |-> None,
     shard_fetched_at |-> None, shard_accepted_at |-> None,
     lock_data_received_at |-> None]

RaceStore0 ==
    Stored([id \in BoxIds |-> None],
           create_box("b1", Owner, [name |-> "n1", description |-> "e1"], 1))

RaceStore1 ==
    Stored(RaceStore0,
           update_or_add_guardian(RaceStore0["b1"], Owner, RaceGuardian("g1", "i1")))

RaceStore2 ==
    Stored(RaceStore1,
           update_or_add_guardian(RaceStore1["b1"], Owner, RaceGuardian("g2", "i2")))

InitRace ==
    /\ boxes = RaceStore2
    /\ created = {"b1"}
    /\ inflight = [s \in {1, 2} |-> Idle]
    /\ now = 1
    /\ invitations = [id \in InviteIds |-> None]
    /\ redeem = [c \in Redeemers |-> [pc |-> "idle"]]
    /\ refresh = [pc |-> "idle"]
    /\ views = 0
    /\ inviteEvents = {}
    /\ boxEvents = {}
    /\ lockReply = None
    /\ sweep = NoSweep
    /\ reminders = <<>>
    /\ pushTokens = {}
    /\ notify = None

NextRace ==
    \/ UpdateBox
    \/ LockBox
    \/ DeleteBox
    \/ FetchShard
    \/ AcknowledgeShard
    \/ AcceptShard
    \/ StoreReturns

SpecRace == InitRace /\ [][NextRace]_vars

(***************************************************************************)
(* Shard retrieval: the owner has locked the box with guardians g1 and g2, *)
(* who fetch, acknowledge and accept their shards as time passes.          *)
(***************************************************************************)
ShardStore ==
    Stored(RaceStore2,
           lock_box(RaceStore2["b1"], Owner,
                    [shards |-> <<ShardOf("g1"), ShardOf("g2")>>, shard_threshold |-> 2], 1))

InitShards ==
    /\ boxes = ShardStore
    /\ created = {"b1"}
    /\ inflight = [s \in {1, 2} |-> Idle]
    /\ now = 1
    /\ invitations = [id \in InviteIds |-> None]
    /\ redeem = [c \in Redeemers |-> [pc |-> "idle"]]
    /\ refresh = [pc |-> "idle"]
    /\ views = 0
    /\ inviteEvents = {}
    /\ boxEvents = {}
    /\ lockReply = None
    /\ sweep = NoSweep
    /\ reminders = <<>>
    /\ pushTokens = {}
    /\ notify = None

\* time passes
Tick ==
    /\ now < MaxClock
    /\ now' = now + TickHours
    /\ UNCHANGED <<boxVars, invVars, remVars>>

ShardStoreReturns == StoreReturnsWithin(MaxShardVersion)

(***************************************************************************)
(* The reminder sweep.  The timer has an instant every SweepHours; at an   *)
(* instant the sweep runs at most once, and an instant that passes without *)
(* a sweep is a missed sweep.  A sweep takes the time, scans the locked     *)
(* boxes and then processes the boxes it found one after the other, while  *)
(* guardians may accept.                                                   *)
(***************************************************************************)
WaitUntil(limit) ==
    /\ sweep.pc = "idle"
    /\ now + SweepHours <= limit
    /\ now' = now + SweepHours
    /\ UNCHANGED <<boxVars, invVars, remVars>>

Wait == WaitUntil(MaxSweepClock)

\* handler, up to the loop over the boxes
handler ==
    /\ sweep.pc = "idle"
    /\ sweep.at # Some(now)
    /\ \E scanned \in BOOLEAN :
          LET found == IF scanned THEN BoxStore_scan_locked_boxes(boxes) ELSE <<>>
          IN  sweep' = [pc |-> IF found = <<>> THEN "idle" ELSE "running",
                        at |-> Some(now), found |-> found, next |-> 1, log |-> <<>>]
    /\ UNCHANGED <<boxVars, invVars, now, reminders, pushTokens, notify>>

\* one turn of handler's loop: process_box for the next box found
ProcessBox ==
    /\ sweep.pc = "running"
    /\ LET box_rec == sweep.found[sweep.next]
       IN  \E push \in [DOMAIN box_rec.guardians -> PushOutcomes] :
              LET out == process_box(box_rec, push, sweep.at[1])
              IN  /\ \A i \in DOMAIN push :
                        push[i] \in PushResults(pushTokens, box_rec.guardians[i].id)
                  /\ sweep' = [sweep EXCEPT
                                  !.pc = IF sweep.next = Len(sweep.found)
                                         THEN "idle" ELSE "running",
                                  !.next = @ + 1,
                                  !.log = @ \o out.log]
                  /\ reminders' = reminders \o Sends(out.log)
    /\ UNCHANGED <<boxVars, invVars, now, pushTokens, notify>>

\* box b1 locked at time 1 with guardians g1 and g2, g2 having received the
\* lock data at time 2; box b2 alike, with g1 having received the lock data
\* at time 6 and g2 having accepted
ReminderBox1 ==
    [ShardStore["b1"][1] EXCEPT !.guardians[2].lock_data_received_at = Some(2)]

ReminderBox2 ==
    accept_guardian_shard(
        Some([ShardStore["b1"][1] EXCEPT
                !.id = "b2", !.guardians[1].lock_data_received_at = Some(6)]),
        "g2", 1).rec[1]

ReminderStore ==
    [id \in ReminderBoxIds |-> IF id = "b1" THEN Some(ReminderBox1) ELSE Some(ReminderBox2)]

InitReminder ==
    /\ boxes = ReminderStore
    /\ created = ReminderBoxIds
    /\ inflight = [s \in {1} |-> Idle]
    /\ now = 0
    /\ invitations = [id \in InviteIds |-> None]
    /\ redeem = [c \in Redeemers |-> [pc |-> "idle"]]
    /\ refresh = [pc |-> "idle"]
    /\ views = 0
    /\ inviteEvents = {}
    /\ boxEvents = {}
    /\ lockReply = None
    /\ sweep = NoSweep
    /\ reminders = <<>>
    /\ pushTokens \in TokenHolders
    /\ notify = None

NextReminder ==
    \/ Wait
    \/ handler
    \/ ProcessBox

SpecReminder == InitReminder /\ [][NextReminder]_vars

\* the same boxes over the first day and a half, with guardians accepting
NagWait == WaitUntil(MaxNagClock)

NextNag ==
    \/ NagWait
    \/ handler
    \/ ProcessBox
    \/ AcceptShard
    \/ ShardStoreReturns

SpecNag == InitReminder /\ [][NextNag]_vars

(***************************************************************************)
(* Guardian keys: the owner sends guardians whose invitation_id may be the *)
(* id of another guardian, and deletes guardians by key.                   *)
(***************************************************************************)
KeyedGuardians ==
    [id : {"", "g1", "g2"}, invitation_id : {"i1", "g1"},
     encrypted_shard : {None}, shard_hash : {None},
     shard_fetched_at : {None}, shard_accepted_at : {None},
     lock_data_received_at : {None}]

GuardianKeyValues == {"g1", "g2", "i1", "i2"}

UpdateGuardianKeyed ==
    \E id \in BoxIds, user_id \in OwnerCallers, guardian \in KeyedGuardians :
        /\ Handled("update_guardian",
                   update_or_add_guardian(BoxStore_get(boxes, id), user_id, guardian))
        /\ UNCHANGED <<boxes, created, now>>

DeleteGuardianKeyed ==
    \E id \in BoxIds, user_id \in OwnerCallers, guardian_id \in GuardianKeyValues :
        /\ Handled("delete_guardian",
                   delete_guardian_from_box(BoxStore_get(boxes, id), user_id, guardian_id))
        /\ UNCHANGED <<boxes, created, now>>

InitKeys ==
    /\ boxes = RaceStore0
    /\ created = {"b1"}
    /\ inflight = [s \in {1, 2} |-> Idle]
    /\ now = 1
    /\ invitations = [id \in InviteIds |-> None]
    /\ redeem = [c \in Redeemers |-> [pc |-> "idle"]]
    /\ refresh = [pc |-> "idle"]
    /\ views = 0
    /\ inviteEvents = {}
    /\ boxEvents = {}
    /\ lockReply = None
    /\ sweep = NoSweep
    /\ reminders = <<>>
    /\ pushTokens = {}
    /\ notify = None

NextKeys ==
    \/ UpdateGuardianKeyed
    \/ DeleteGuardianKeyed
    \/ StoreReturns

SpecKeys == InitKeys /\ [][NextKeys]_vars

(***************************************************************************)
(* Locking while guardians come and go: the box starts with guardian g1,   *)
(* and the owner's lock requests race with guardian upserts and deletes.   *)
(***************************************************************************)
InitGuardians ==
    /\ boxes = RaceStore1
    /\ created = {"b1"}
    /\ inflight = [s \in {1, 2} |-> Idle]
    /\ now = 1
    /\ invitations = [id \in InviteIds |-> None]
    /\ redeem = [c \in Redeemers |-> [pc |-> "idle"]]
    /\ refresh = [pc |-> "idle"]
    /\ views = 0
    /\ inviteEvents = {}
    /\ boxEvents = {}
    /\ lockReply = None
    /\ sweep = NoSweep
    /\ reminders = <<>>
    /\ pushTokens = {}
    /\ notify = None

NextGuardians ==
    \/ LockBox
    \/ UpdateGuardian
    \/ DeleteGuardian
    \/ StoreReturns

SpecGuardians == InitGuardians /\ [][NextGuardians]_vars

(***************************************************************************)
(* The notification worker is invoked with a batch of records.  It keeps   *)
(* no state from one batch to the next, so one batch is followed.          *)
(***************************************************************************)
Notify ==
    /\ notify = None
    /\ \E n \in 1..MaxRecords :
          \E records \in [1..n -> Records], faults \in [1..n -> Faults] :
             LET out == notification_handler(records, faults, pushTokens)
             IN  notify' = Some([records |-> records, faults |-> faults,
                                 status |-> out.status, log |-> out.log])
    /\ UNCHANGED <<boxVars, invVars, now, sweep, reminders, pushTokens>>

InitNotify ==
    /\ boxes = [id \in BoxIds |-> None]
    /\ created = {}
    /\ inflight = [s \in {1} |-> Idle]
    /\ now = 1
    /\ invitations = [id \in InviteIds |-> None]
    /\ redeem = [c \in Redeemers |-> [pc |-> "idle"]]
    /\ refresh = [pc |-> "idle"]
    /\ views = 0
    /\ inviteEvents = {}
    /\ boxEvents = {}
    /\ lockReply = None
    /\ sweep = NoSweep
    /\ reminders = <<>>
    /\ pushTokens \in TokenHolders
    /\ notify = None

NextNotify == Notify

SpecNotify == InitNotify /\ [][NextNotify]_vars

\* the same boxes with the timer's instants at 2, 8, 14, ...: the sweep at
\* time 26 runs 25 hours after box b1 was locked
InitS6 ==
    /\ boxes = ReminderStore
    /\ created = ReminderBoxIds
    /\ inflight = [s \in {1} |-> Idle]
    /\ now = 2
    /\ invitations = [id \in InviteIds |-> None]
    /\ redeem = [c \in Redeemers |-> [pc |-> "idle"]]
    /\ refresh = [pc |-> "idle"]
    /\ views = 0
    /\ inviteEvents = {}
    /\ boxEvents = {}
    /\ lockReply = None
    /\ sweep = NoSweep
    /\ reminders = <<>>
    /\ pushTokens \in TokenHolders
    /\ notify = None

S6Wait == WaitUntil(MaxS6Clock)

NextS6 ==
    \/ S6Wait
    \/ handler
    \/ ProcessBox
    \/ AcceptShard
    \/ ShardStoreReturns

SpecS6 == InitS6 /\ [][NextS6]_vars

NextShards ==
    \/ FetchShard
    \/ AcknowledgeShard
    \/ AcceptShard
    \/ ShardStoreReturns
    \/ Tick

SpecShards == InitShards /\ [][NextShards]_vars

(***************************************************************************)
(* Locking under concurrency: the owner has created a box with a guardian  *)
(* who has not yet accepted (empty id) and guardian g1, and lock, update   *)
(* and delete requests race for it.                                        *)
(***************************************************************************)
PublishStore1 ==
    Stored(RaceStore0,
           update_or_add_guardian(RaceStore0["b1"], Owner, RaceGuardian("", "i1")))

PublishStore2 ==
    Stored(PublishStore1,
           update_or_add_guardian(PublishStore1["b1"], Owner, RaceGuardian("g1", "i2")))

InitPublish ==
    /\ boxes = PublishStore2
    /\ created = {"b1"}
    /\ inflight = [s \in {1, 2} |-> Idle]
    /\ now = 1
    /\ invitations = [id \in InviteIds |-> None]
    /\ redeem = [c \in Redeemers |-> [pc |-> "idle"]]
    /\ refresh = [pc |-> "idle"]
    /\ views = 0
    /\ inviteEvents = {}
    /\ boxEvents = {}
    /\ lockReply = None
    /\ sweep = NoSweep
    /\ reminders = <<>>
    /\ pushTokens = {}
    /\ notify = None

NextPublish ==
    \/ UpdateBox
    \/ LockBox
    \/ DeleteBox
    \/ StoreReturns

SpecPublish == InitPublish /\ [][NextPublish]_vars

(***************************************************************************)
(* Invitation service: create, view, handle (redemption) and refresh over  *)
(* the invitation store.  handle and refresh read the invitation, and      *)
(* their store write is a later step.                                      *)
(***************************************************************************)
new_invitation(id, code, creator_id, t) ==
    [id |-> id,
     invite_code |-> code,
     invited_name |-> "guest",
     box_id |-> "b1",
     creator_id |-> creator_id,
     created_at |-> t,
     expires_at |-> t + ExpiryHours,
     opened |-> FALSE,
     linked_user_id |-> None,
     is_lead_guardian |-> FALSE]

InvitationStore_create(store, rec) == [store EXCEPT ![rec.id] = Some(rec)]

InvitationStore_get(store, id) == store[id]

\* the results get_by_code may return: None when no invitation has the code
InvitationStore_get_by_code(store, code) ==
    LET found == {store[id] : id \in {i \in InviteIds :
                        IsSome(store[i]) /\ store[i][1].invite_code = code}}
    IN  IF found = {} THEN {None} ELSE found

\* a redemption write that stores the record whatever the stored one holds
InvitationStore_redeem_unguarded(store, rec) ==
    IF store[rec.id] = None
    THEN [status |-> "NotFound", store |-> store]
    ELSE [status |-> "Ok", store |-> [store EXCEPT ![rec.id] = Some(rec)]]

\* the conditional write of redemption: it succeeds only if the stored
\* invitation is unopened when the write commits
InvitationStore_redeem(store, rec) ==
    IF store[rec.id] = None
    THEN [status |-> "NotFound", store |-> store]
    ELSE IF store[rec.id][1].opened
    THEN [status |-> "Forbidden", store |-> store]
    ELSE [status |-> "Ok", store |-> [store EXCEPT ![rec.id] = Some(rec)]]

\* the plain update of the store
InvitationStore_update(store, rec) ==
    IF store[rec.id] = None
    THEN [status |-> "NotFound", store |-> store]
    ELSE [status |-> "Ok", store |-> [store EXCEPT ![rec.id] = Some(rec)]]

\* a view that consumes the invitation it shows
view_invitation_consumes(found, t) ==
    IF found = None THEN Fail("NotFound")
    ELSE IF found[1].expires_at <= t THEN Fail("Gone")
    ELSE StoreCall("update", [found[1] EXCEPT !.opened = TRUE], found)

\* GET /invitations/view/:code
view_invitation(found, t) ==
    IF found = None THEN Fail("NotFound")
    ELSE IF found[1].expires_at <= t THEN Fail("Gone")
    ELSE Respond("Ok", found)

\* a handle that checks opened before expiry
handle_invitation_opened_first(found, caller_id, t) ==
    IF found = None THEN Fail("NotFound")
    ELSE IF found[1].opened THEN Fail("Forbidden")
    ELSE IF found[1].expires_at <= t THEN Fail("Gone")
    ELSE StoreCall("redeem",
            [found[1] EXCEPT !.opened = TRUE, !.linked_user_id = Some(caller_id)],
            Some([boxId |-> found[1].box_id]))

\* a handle that still accepts the invitation at the instant it expires
handle_invitation_late(found, caller_id, t) ==
    IF found = None THEN Fail("NotFound")
    ELSE IF found[1].expires_at < t THEN Fail("Gone")
    ELSE IF found[1].opened THEN Fail("Forbidden")
    ELSE StoreCall("redeem",
            [found[1] EXCEPT !.opened = TRUE, !.linked_user_id = Some(caller_id)],
            Some([boxId |-> found[1].box_id]))

\* PUT /invitations/handle
handle_invitation(found, caller_id, t) ==
    IF found = None THEN Fail("NotFound")
    ELSE IF found[1].expires_at <= t THEN Fail("Gone")
    ELSE IF found[1].opened THEN Fail("Forbidden")
    ELSE StoreCall("redeem",
            [found[1] EXCEPT !.opened = TRUE, !.linked_user_id = Some(caller_id)],
            Some([boxId |-> found[1].box_id]))

\* a refresh that also renews an opened invitation
refresh_invitation_reopens(found, caller_id, code, t) ==
    IF found = None THEN Fail("NotFound")
    ELSE IF found[1].creator_id # caller_id THEN Fail("Forbidden")
    ELSE StoreCall("update",
            [found[1] EXCEPT !.invite_code = code, !.expires_at = t + ExpiryHours],
            None)

\* a refresh that any caller may make
refresh_invitation_any_caller(found, caller_id, code, t) ==
    IF found = None THEN Fail("NotFound")
    ELSE IF found[1].opened THEN Fail("BadRequest")
    ELSE StoreCall("update",
            [found[1] EXCEPT !.invite_code = code, !.expires_at = t + ExpiryHours],
            None)

\* PATCH /invitations/:id/refresh
refresh_invitation(found, caller_id, code, t) ==
    IF found = None THEN Fail("NotFound")
    ELSE IF found[1].creator_id # caller_id THEN Fail("Forbidden")
    ELSE IF found[1].opened THEN Fail("BadRequest")
    ELSE StoreCall("update",
            [found[1] EXCEPT !.invite_code = code, !.expires_at = t + ExpiryHours],
            None)

InitInv ==
    /\ boxes = [id \in BoxIds |-> None]
    /\ created = {}
    /\ inflight = [s \in {1} |-> Idle]
    /\ now = 0
    /\ invitations = [id \in InviteIds |-> None]
    /\ redeem = [c \in Redeemers |-> [pc |-> "idle"]]
    /\ refresh = [pc |-> "idle"]
    /\ views = 0
    /\ inviteEvents = {}
    /\ boxEvents = {}
    /\ lockReply = None
    /\ sweep = NoSweep
    /\ reminders = <<>>
    /\ pushTokens = {}
    /\ notify = None

\* POST /invitations/new: the new invitation gets an id not in use and the
\* code the generator returns
CreateInvitationOf(ids) ==
    \E id \in ids, code \in InviteCodes :
        /\ invitations[id] = None
        /\ invitations' = InvitationStore_create(invitations, new_invitation(id, code, Creator, now))
        /\ UNCHANGED <<boxVars, remVars, now, redeem, refresh, views, inviteEvents>>

\* the store after a handler that answers at once: its store call, if it
\* makes one, is the plain update
Answered(store, out) ==
    IF out.call = "none" THEN store ELSE InvitationStore_update(store, out.rec[1]).store

\* a view request is answered; views counts the answered view requests
ViewInvitation ==
    \E code \in InviteCodes : \E found \in InvitationStore_get_by_code(invitations, code) :
        /\ views < MaxViews
        /\ invitations' = Answered(invitations, view_invitation(found, now))
        /\ views' = views + 1
        /\ UNCHANGED <<boxVars, remVars, now, redeem, refresh, inviteEvents>>

\* handle runs from its lookup to its conditional write
HandleInvitation ==
    \E c \in Redeemers, code \in InviteCodes :
      \E found \in InvitationStore_get_by_code(invitations, code) :
        /\ redeem[c].pc = "idle"
        /\ LET out == handle_invitation(found, c, now)
           IN  redeem' = [redeem EXCEPT ![c] =
                   IF out.call = "none"
                   THEN [pc |-> "done", status |-> out.status]
                   ELSE [pc |-> "write", rec |-> out.rec[1]]]
        /\ UNCHANGED <<boxVars, remVars, now, invitations, refresh, views, inviteEvents>>

\* the invitation_viewed event of a redemption
invitation_viewed(rec) ==
    [event_type |-> "invitation_viewed",
     invitation_id |-> rec.id,
     box_id |-> rec.box_id,
     user_id |-> rec.linked_user_id,
     invite_code |-> rec.invite_code,
     is_lead_guardian |-> rec.is_lead_guardian]

\* the conditional write of a waiting handle completes, and handle answers,
\* having emitted invitation_viewed if the write succeeded
HandleWrites ==
    \E c \in Redeemers :
        /\ redeem[c].pc = "write"
        /\ LET res == InvitationStore_redeem(invitations, redeem[c].rec)
           IN  /\ invitations' = res.store
               /\ redeem' = [redeem EXCEPT ![c] =
                       [pc |-> "done", status |-> res.status]]
               /\ inviteEvents' = IF res.status = "Ok"
                                  THEN inviteEvents \cup {invitation_viewed(redeem[c].rec)}
                                  ELSE inviteEvents
        /\ UNCHANGED <<boxVars, remVars, now, refresh, views>>

\* refresh runs from its read to its store update
RefreshInvitation ==
    \E id \in InviteIds, caller_id \in RefreshCallers, code \in InviteCodes :
        /\ refresh.pc # "write"
        /\ IsSome(invitations[id]) => invitations[id][1].invite_code # code
        /\ LET out == refresh_invitation(InvitationStore_get(invitations, id), caller_id, code, now)
           IN  refresh' = IF out.call = "none"
                          THEN [pc |-> "done", caller_id |-> caller_id, status |-> out.status]
                          ELSE [pc |-> "write", caller_id |-> caller_id, rec |-> out.rec[1]]
        /\ UNCHANGED <<boxVars, remVars, now, invitations, redeem, views, inviteEvents>>

\* the store update of a waiting refresh completes, and refresh answers
RefreshWrites ==
    /\ refresh.pc = "write"
    /\ LET res == InvitationStore_update(invitations, refresh.rec)
       IN  /\ invitations' = res.store
           /\ refresh' = [pc |-> "done", caller_id |-> refresh.caller_id,
                          status |-> res.status]
    /\ UNCHANGED <<boxVars, remVars, now, redeem, views, inviteEvents>>

\* one invitation is created
CreateInvitation == CreateInvitationOf({"v1"})

NextInv ==
    \/ CreateInvitation
    \/ ViewInvitation
    \/ HandleInvitation
    \/ HandleWrites
    \/ RefreshInvitation
    \/ RefreshWrites
    \/ Tick

SpecInv == InitInv /\ [][NextInv]_vars

(***************************************************************************)
(* Concurrent redemption of one invitation: the creator has created it,    *)
(* and from there only view and handle requests arrive.                    *)
(***************************************************************************)
InitRedeem ==
    /\ boxes = [id \in BoxIds |-> None]
    /\ created = {}
    /\ inflight = [s \in {1} |-> Idle]
    /\ now = 0
    /\ \E code \in InviteCodes :
          invitations = InvitationStore_create([id \in InviteIds |-> None],
                                               new_invitation("v1", code, Creator, 0))
    /\ redeem = [c \in Redeemers |-> [pc |-> "idle"]]
    /\ refresh = [pc |-> "idle"]
    /\ views = 0
    /\ inviteEvents = {}
    /\ boxEvents = {}
    /\ lockReply = None
    /\ sweep = NoSweep
    /\ reminders = <<>>
    /\ pushTokens = {}
    /\ notify = None

NextRedeem ==
    \/ ViewInvitation
    \/ HandleInvitation
    \/ HandleWrites
    \/ Tick

SpecRedeem == InitRedeem /\ [][NextRedeem]_vars

(***************************************************************************)
(* Code generation: invitations are created and refreshed as time passes.  *)
(***************************************************************************)
CreateInvitations == CreateInvitationOf(InviteIds)

NextCodes ==
    \/ CreateInvitations
    \/ RefreshInvitation
    \/ RefreshWrites
    \/ Tick

SpecCodes == InitInv /\ [][NextCodes]_vars

(***************************************************************************)
(* Properties of the box service                                           *)
(***************************************************************************)
StoredIds == {id \in BoxIds : IsSome(boxes[id])}
Box(id) == boxes[id][1]
LockedIds == {id \in StoredIds : Box(id).is_locked}
Waiting == {s \in Slots : inflight[s] # Idle}
\* the requests whose store call completes in this step
Returning(op) == \E s \in Waiting : inflight[s].op = op /\ inflight'[s] = Idle

\* C1 (as claimed): for every stored locked box and every guardian of it,
\* encrypted_shard is null if and only if shard_fetched_at is set.
C1_ShardNullIffFetched ==
    \A id \in LockedIds : \A i \in 1..Len(Box(id).guardians) :
        IsNone(Box(id).guardians[i].encrypted_shard)
            <=> IsSome(Box(id).guardians[i].shard_fetched_at)

\* C2 (as claimed): for every stored locked box, shards_fetched is the number
\* of guardians whose shard_fetched_at is set, and it equals total_shards if
\* and only if shards_deleted_at is set.
C2_FetchedCounter ==
    \A id \in LockedIds :
        /\ Box(id).shards_fetched = Some(FetchedCount(Box(id).guardians))
        /\ (Box(id).shards_fetched = Box(id).total_shards)
               <=> IsSome(Box(id).shards_deleted_at)

\* C3 (as claimed): every stored locked box has locked_at set, a
\* shard_threshold between 1 and the number of guardians, and total_shards
\* equal to the number of guardians; right after the box becomes locked
\* shards_fetched is 0.
C3_LockedShape ==
    \A id \in LockedIds :
        /\ IsSome(Box(id).locked_at)
        /\ IsSome(Box(id).shard_threshold)
        /\ Box(id).shard_threshold[1] \in 1..Len(Box(id).guardians)
        /\ Box(id).total_shards = Some(Len(Box(id).guardians))

C3_LockedWithZeroFetched ==
    /\ [](C3_LockedShape)
    /\ [][\A id \in BoxIds :
            (/\ IsSome(boxes[id]) /\ ~boxes[id][1].is_locked
             /\ IsSome(boxes'[id]) /\ boxes'[id][1].is_locked)
                => boxes'[id][1].shards_fetched = Some(0)]_vars

\* C4 (as claimed): an unlocked box becomes locked only when the store call
\* of a lock request (POST .../lock) completes, never when that of an update
\* box request (PATCH) does.
C4_LockedOnlyByLock ==
    [][\A id \in BoxIds :
          (/\ IsSome(boxes[id]) /\ ~boxes[id][1].is_locked
           /\ IsSome(boxes'[id]) /\ boxes'[id][1].is_locked)
              => Returning("lock_box") /\ ~Returning("update_box")]_vars

\* C5: locking is one-way.  A stored locked box is never stored unlocked by
\* any later step, whatever requests were in flight when it was locked, and
\* an update box request by the owner that carries is_locked = false on a
\* locked box returns BadRequest without a store call.
C5_UnlockRejected ==
    \A id \in LockedIds : \A payload \in UpdateBoxRequests :
        payload.is_locked = Some(FALSE)
            => update_box(boxes[id], Box(id).owner_id, payload, now) = Fail("BadRequest")

C5_LockIsOneWay ==
    /\ [](C5_UnlockRejected)
    /\ [][\A id \in BoxIds :
            (IsSome(boxes[id]) /\ boxes[id][1].is_locked /\ IsSome(boxes'[id]))
                => boxes'[id][1].is_locked]_vars

\* C5 witness: the stored box is locked while an update box request that read
\* it unlocked is still waiting to write its unlocked copy.
C5_Witness ==
    \E id \in LockedIds : \E s \in Waiting :
        /\ inflight[s].op = "update_box"
        /\ inflight[s].out.rec[1].id = id
        /\ ~inflight[s].out.rec[1].is_locked

\* which guardians a box has, in which order
GuardianKeys(box_rec) ==
    [i \in 1..Len(box_rec.guardians) |->
        <<box_rec.guardians[i].id, box_rec.guardians[i].invitation_id>>]

\* C6: once a box is stored locked, no later step changes its name,
\* description, unlock_instructions, document list or guardian list.
C6_LockedIsImmutable ==
    [][\A id \in BoxIds :
          (IsSome(boxes[id]) /\ boxes[id][1].is_locked /\ IsSome(boxes'[id]))
              => /\ boxes'[id][1].name = boxes[id][1].name
                 /\ boxes'[id][1].description = boxes[id][1].description
                 /\ boxes'[id][1].unlock_instructions = boxes[id][1].unlock_instructions
                 /\ boxes'[id][1].documents = boxes[id][1].documents
                 /\ GuardianKeys(boxes'[id][1]) = GuardianKeys(boxes[id][1])]_vars

\* C6 witness: a locked box with guardians and documents on which an update
\* box request of the owner has passed its checks and waits to write.
C6_Witness ==
    \E id \in LockedIds : \E s \in Waiting :
        /\ Len(Box(id).guardians) > 0
        /\ Len(Box(id).documents) > 0
        /\ inflight[s].op = "update_box"
        /\ inflight[s].out.rec[1].version = Box(id).version

\* C7 (as claimed): on a locked box every mutating owner endpoint called by
\* the owner returns BadRequest and makes no store call.
C7_LockedRejectsOwner ==
    \A id \in LockedIds :
        LET got == boxes[id]
            owner_id == Box(id).owner_id
        IN  /\ \A payload \in UpdateBoxRequests :
                   update_box(got, owner_id, payload, now) = Fail("BadRequest")
            /\ delete_box(got, owner_id) = Fail("BadRequest")
            /\ \A payload \in LockBoxRequests :
                   lock_box(got, owner_id, payload, now) = Fail("BadRequest")
            /\ \A guardian \in GuardianPayloads :
                   update_or_add_guardian(got, owner_id, guardian) = Fail("BadRequest")
            /\ \A guardian_id \in GuardianIds \cup InvitationIds :
                   delete_guardian_from_box(got, owner_id, guardian_id) = Fail("BadRequest")
            /\ \A document \in DocumentPayloads :
                   update_or_add_document(got, owner_id, document) = Fail("BadRequest")
            /\ \A document_id \in DocumentIds :
                   delete_document_from_box(got, owner_id, document_id) = Fail("BadRequest")

Invitation(id) == invitations[id][1]

InvitationsStored == {id \in InviteIds : IsSome(invitations[id])}

Redeemed == {c \in Redeemers : redeem[c].pc = "done" /\ redeem[c].status = "Ok"}

Refused == {c \in Redeemers : redeem[c].pc = "done" /\ redeem[c].status = "Forbidden"}

\* C9: of the concurrent handle calls for one unopened, unexpired invitation
\* code, at most one has returned 200 at any moment, the stored
\* linked_user_id is the caller of that call, a call returns 403 only once
\* the invitation is opened, and when no call is still waiting for its
\* write, exactly one of the calls that found the code valid has returned
\* 200 and every other one 403.
C9_ExactlyOneRedeems ==
    /\ Cardinality(Redeemed) <= 1
    /\ \A c \in Redeemed :
          /\ Invitation("v1").opened
          /\ Invitation("v1").linked_user_id = Some(c)
    /\ Refused # {} => Invitation("v1").opened
    /\ (/\ \A c \in Redeemers : redeem[c].pc # "write"
        /\ Redeemed \cup Refused # {})
       => Cardinality(Redeemed) = 1

\* three callers raced for the code: u3 won, u2 and u4 were answered 403
C9_Witness ==
    /\ Redeemed = {"u3"}
    /\ Refused = {"u2", "u4"}
    /\ Invitation("v1").linked_user_id = Some("u3")

\* C10: an opened invitation is terminal: it always has linked_user_id set,
\* no step of view, handle or refresh (a refresh that read the invitation
\* before the redemption committed included) clears opened or changes
\* linked_user_id, and a handle by another user of an opened invitation
\* that has not expired returns 403.
C10_OpenedIsTerminal ==
    /\ [](\A id \in InvitationsStored :
             Invitation(id).opened => IsSome(Invitation(id).linked_user_id))
    /\ [](\A id \in InvitationsStored : \A c \in Redeemers :
             (/\ Invitation(id).opened
              /\ Invitation(id).linked_user_id # Some(c)
              /\ now < Invitation(id).expires_at)
             => handle_invitation(invitations[id], c, now).status = "Forbidden")
    /\ [][\A id \in InvitationsStored :
             Invitation(id).opened
             => /\ IsSome(invitations'[id])
                /\ invitations'[id][1].opened
                /\ invitations'[id][1].linked_user_id = Invitation(id).linked_user_id]_vars

\* C11: view_by_code is read-only: a step that answers a view request
\* leaves every stored invitation (opened, linked_user_id, expires_at and
\* invite_code included) as it was, whoever calls and however often, and
\* an unopened, unexpired invitation that has been viewed is still
\* redeemed by handle for any caller.
C11_ViewIsReadOnly ==
    /\ [][views' # views => invitations' = invitations]_vars
    /\ [](\A id \in InvitationsStored : \A c \in Redeemers :
             (/\ views > 0
              /\ ~Invitation(id).opened
              /\ now < Invitation(id).expires_at)
             => LET out == handle_invitation(invitations[id], c, now)
                IN  /\ out.call = "redeem"
                    /\ InvitationStore_redeem(invitations, out.rec[1]).status = "Ok")

\* the invitation was viewed twice and then redeemed by u2
C11_Witness ==
    /\ views = MaxViews
    /\ Redeemed = {"u2"}
    /\ Invitation("v1").linked_user_id = Some("u2")

\* the instants around the expiry of an invitation, and the present one
Instants(inv) == {now, inv.expires_at - 1, inv.expires_at, inv.expires_at + 1}

\* C12: for every stored invitation, at the instant it expires, one unit
\* before, one unit after, and now, view and handle
\* answer 410 Gone exactly when expires_at <= now (expires_at = now
\* included); a request answered Gone makes no store write, so an unopened
\* invitation stays unopened and unlinked; and while expires_at > now,
\* however small the margin, handle redeems an unopened invitation.
C12_ExpiryBoundary ==
    \A id \in InvitationsStored : \A t \in Instants(Invitation(id)) : \A c \in Redeemers :
        LET view == view_invitation(invitations[id], t)
            out == handle_invitation(invitations[id], c, t)
        IN  /\ view.status = "Gone" <=> Invitation(id).expires_at <= t
            /\ out.status = "Gone" <=> Invitation(id).expires_at <= t
            /\ out.status = "Gone" => out.call = "none"
            /\ view.status = "Gone" => Answered(invitations, view) = invitations
            /\ (Invitation(id).expires_at > t /\ ~Invitation(id).opened)
               => /\ out.call = "redeem"
                  /\ LET res == InvitationStore_redeem(invitations, out.rec[1])
                     IN  /\ res.status = "Ok"
                         /\ res.store[id][1].opened
                         /\ res.store[id][1].linked_user_id = Some(c)

\* u2's handle arrived at the very instant the invitation expired and was
\* answered Gone; the invitation is still unopened and unlinked
C12_Witness ==
    /\ IsSome(invitations["v1"])
    /\ Invitation("v1").expires_at = now
    /\ ~Invitation("v1").opened
    /\ Invitation("v1").linked_user_id = None
    /\ redeem["u2"].pc = "done"
    /\ redeem["u2"].status = "Gone"

HandleErrors == {"NotFound", "Gone", "Forbidden"}

\* C13: handle checks in a fixed order: a code no invitation has is
\* answered NotFound; otherwise an expired invitation is answered Gone,
\* also when it is opened; otherwise an opened one is answered Forbidden;
\* and a step in which a handle call is answered with one of the three
\* errors changes no stored invitation and emits no invitation_viewed
\* event.
C13_HandleCheckOrder ==
    /\ [](\A code \in InviteCodes : \A c \in Redeemers :
            \A found \in InvitationStore_get_by_code(invitations, code) :
              LET out == handle_invitation(found, c, now)
              IN  /\ found = None => out.status = "NotFound"
                  /\ (found # None /\ found[1].expires_at <= now)
                     => out.status = "Gone"
                  /\ (found # None /\ found[1].expires_at > now /\ found[1].opened)
                     => out.status = "Forbidden"
                  /\ out.status \in HandleErrors => out.call = "none")
    /\ [][\A c \in Redeemers :
            (/\ redeem[c].pc # "done"
             /\ redeem'[c].pc = "done"
             /\ redeem'[c].status \in HandleErrors)
            => /\ invitations' = invitations
               /\ inviteEvents' = inviteEvents]_vars

\* u2 redeemed the invitation, it then expired, and u3's handle of the
\* opened, expired invitation was answered Gone; u4 used an unknown code
C13_Witness ==
    /\ IsSome(invitations["v1"])
    /\ Invitation("v1").opened
    /\ Invitation("v1").expires_at <= now
    /\ Redeemed = {"u2"}
    /\ redeem["u3"].pc = "done" /\ redeem["u3"].status = "Gone"
    /\ redeem["u4"].pc = "done" /\ redeem["u4"].status = "NotFound"
    /\ inviteEvents = {invitation_viewed(Invitation("v1"))}

\* C14: refresh by any caller other than the invitation's creator_id is
\* answered 403 Forbidden without a store call; the step that answers it
\* leaves the stored invitation (invite_code, expires_at, opened and
\* linked_user_id included) unchanged, and only the creator's refresh ever
\* reaches the store.
C14_RefreshByCreatorOnly ==
    /\ [](\A id \in InvitationsStored : \A caller_id \in RefreshCallers :
            \A code \in InviteCodes :
              caller_id # Invitation(id).creator_id
              => LET out == refresh_invitation(invitations[id], caller_id, code, now)
                 IN  out.status = "Forbidden" /\ out.call = "none")
    /\ [](refresh.pc = "write" => refresh.caller_id = refresh.rec.creator_id)
    /\ [](refresh.pc = "done" /\ refresh.caller_id # Creator
            => refresh.status \in {"Forbidden", "NotFound"})
    /\ [][(/\ refresh' # refresh
           /\ refresh'.pc = "done"
           /\ refresh'.status = "Forbidden")
          => invitations' = invitations]_vars

\* u2, who did not create the invitation, asked for a refresh and was
\* answered Forbidden; the invitation is stored as created
C14_Witness ==
    /\ refresh = [pc |-> "done", caller_id |-> "u2", status |-> "Forbidden"]
    /\ IsSome(invitations["v1"])
    /\ Invitation("v1").creator_id = "u1"
    /\ Invitation("v1").expires_at = Invitation("v1").created_at + ExpiryHours
    /\ ~Invitation("v1").opened

\* the fields of an invitation that neither refresh nor time may touch
Kept(inv) ==
    <<inv.id, inv.box_id, inv.invited_name, inv.creator_id, inv.created_at,
      inv.is_lead_guardian, inv.opened, inv.linked_user_id>>

\* C15: an invitation is created with expires_at = creation time + 48 h; a
\* refresh by the creator of an unopened invitation prepares a new
\* invite_code different from the old one and expires_at = refresh time +
\* 48 h; and the step in which a refresh succeeds stores that code and
\* that expiry and leaves id, box_id, invited_name, creator_id, opened and
\* linked_user_id of the stored invitation unchanged.
C15_RefreshRenews ==
    /\ [](\A id \in InvitationsStored : \A code \in InviteCodes :
            (~Invitation(id).opened /\ code # Invitation(id).invite_code)
            => LET out == refresh_invitation(invitations[id], Invitation(id).creator_id, code, now)
               IN  /\ out.call = "update"
                   /\ out.rec[1].invite_code = code
                   /\ out.rec[1].expires_at = now + ExpiryHours
                   /\ Kept(out.rec[1]) = Kept(Invitation(id)))
    /\ [][\A id \in InviteIds :
            (invitations[id] = None /\ invitations'[id] # None)
            => /\ invitations'[id][1].created_at = now
               /\ invitations'[id][1].expires_at = now + ExpiryHours]_vars
    /\ [][\A id \in InvitationsStored :
            (/\ refresh.pc = "write"
             /\ refresh.rec.id = id
             /\ refresh'.pc = "done"
             /\ refresh'.status = "Ok")
            => /\ invitations'[id][1].invite_code = refresh.rec.invite_code
               /\ invitations'[id][1].invite_code # Invitation(id).invite_code
               /\ invitations'[id][1].expires_at = refresh.rec.expires_at
               /\ Kept(invitations'[id][1]) = Kept(Invitation(id))]_vars

\* C16: a refresh that finds the invitation already opened fails, also
\* when its creator calls, without a store call, and the step that answers
\* it leaves the stored invitation (invite_code, expires_at, opened and
\* linked_user_id included) unchanged.
C16_RefreshOfOpenedFails ==
    /\ [](\A id \in InvitationsStored : \A caller_id \in RefreshCallers :
            \A code \in InviteCodes :
              Invitation(id).opened
              => LET out == refresh_invitation(invitations[id], caller_id, code, now)
                 IN  /\ out.status # "Ok"
                     /\ out.call = "none"
                     /\ Answered(invitations, out) = invitations)
    /\ [][(/\ refresh.pc # "write"
           /\ refresh' # refresh
           /\ InvitationsStored # {}
           /\ \A id \in InvitationsStored : Invitation(id).opened)
          => /\ refresh'.pc = "done"
             /\ refresh'.status # "Ok"
             /\ invitations' = invitations]_vars

\* u2 redeemed the invitation and the creator's refresh was then refused
C16_Witness ==
    /\ refresh = [pc |-> "done", caller_id |-> "u1", status |-> "BadRequest"]
    /\ IsSome(invitations["v1"])
    /\ Invitation("v1").opened
    /\ Invitation("v1").linked_user_id = Some("u2")
    /\ Invitation("v1").expires_at = Invitation("v1").created_at + ExpiryHours

\* C17: no two distinct invitations that are both unopened and unexpired
\* (opened = false and expires_at > now) have the same invite_code, after
\* any sequence of create and refresh operations.
C17_ActiveCodesUnique ==
    \A id \in InvitationsStored : \A other \in InvitationsStored \ {id} :
        (/\ ~Invitation(id).opened
         /\ ~Invitation(other).opened
         /\ Invitation(id).expires_at > now
         /\ Invitation(other).expires_at > now)
        => Invitation(id).invite_code # Invitation(other).invite_code

\* what a successful lock with this payload leaves in a box record
LockedAsAsked(rec, payload) ==
    /\ rec.is_locked
    /\ rec.locked_at = Some(rec.updated_at)
    /\ rec.shard_threshold = Some(payload.shard_threshold)
    /\ rec.total_shards = Some(Len(rec.guardians))
    /\ rec.shards_fetched = Some(0)
    /\ rec.shards_deleted_at = None
    /\ \A i \in 1..Len(rec.guardians) :
          /\ rec.guardians[i].shard_fetched_at = None
          /\ \E k \in 1..Len(payload.shards) :
                /\ payload.shards[k].guardian_id = rec.guardians[i].id
                /\ rec.guardians[i].encrypted_shard = Some(payload.shards[k].shard)
                /\ rec.guardians[i].shard_hash = Some(payload.shards[k].shard_hash)
    /\ \A k \in 1..Len(payload.shards) :
          \E i \in 1..Len(rec.guardians) :
                /\ payload.shards[k].guardian_id = rec.guardians[i].id
                /\ rec.guardians[i].encrypted_shard = Some(payload.shards[k].shard)
                /\ rec.guardians[i].shard_hash = Some(payload.shards[k].shard_hash)

\* C18: a lock that passes its checks makes one store call, whose record
\* has is_locked = true, locked_at = updated_at, shard_threshold as
\* requested, total_shards = number of guardians, shards_fetched = 0,
\* shards_deleted_at = null, and for every guardian the encrypted_shard and
\* shard_hash of the payload entry with that guardian's id and
\* shard_fetched_at = null, every payload shard being assigned; and the
\* step in which that store call succeeds stores exactly that record.
C18_LockWrites ==
    /\ [](\A id \in StoredIds : \A payload \in LockBoxRequests :
            LET out == lock_box(boxes[id], Box(id).owner_id, payload, now)
            IN  out.call # "none"
                => /\ out.call = "update"
                   /\ out.rec[1].id = id
                   /\ out.rec[1].guardians = [i \in 1..Len(Box(id).guardians) |->
                         [Box(id).guardians[i] EXCEPT
                             !.encrypted_shard = out.rec[1].guardians[i].encrypted_shard,
                             !.shard_hash = out.rec[1].guardians[i].shard_hash]]
                   /\ LockedAsAsked(out.rec[1], payload))
    /\ [][\A s \in Waiting :
            (/\ inflight[s].op = "lock_box"
             /\ inflight'[s] = Idle
             /\ BoxStore_update(boxes, inflight[s].out.rec[1]).status = "Ok")
            => LET rec == inflight[s].out.rec[1]
               IN  /\ ~Box(rec.id).is_locked
                   /\ boxes'[rec.id] = Some([rec EXCEPT !.version = rec.version + 1])]_vars

\* a box with guardians g2, g1 (in that order) was locked with threshold 1:
\* each guardian holds the shard that the payload keyed by its id
C18_Witness ==
    /\ IsSome(boxes["b1"])
    /\ Box("b1").is_locked
    /\ Len(Box("b1").guardians) = 2
    /\ Box("b1").guardians[1].id = "g2"
    /\ Box("b1").guardians[1].encrypted_shard = Some("b")
    /\ Box("b1").guardians[1].shard_hash = Some("hb")
    /\ Box("b1").guardians[2].id = "g1"
    /\ Box("b1").guardians[2].encrypted_shard = Some("a")
    /\ Box("b1").shard_threshold = Some(1)
    /\ Box("b1").total_shards = Some(2)
    /\ Box("b1").shards_fetched = Some(0)
    /\ Box("b1").locked_at = Some(Box("b1").updated_at)

\* the first precondition of lock that a request fails, in the claimed order
FirstLockFailure(box_rec, user_id, payload) ==
    IF box_rec.owner_id # user_id THEN Some(NotOwner)
    ELSE IF box_rec.is_locked THEN Some(AlreadyLocked)
    ELSE IF Len(payload.shards) # Len(box_rec.guardians) THEN Some(ShardCount)
    ELSE IF payload.shard_threshold \notin 1..Len(payload.shards) THEN Some(ThresholdRange)
    ELSE IF \E i \in 1..Len(box_rec.guardians) :
               \A k \in 1..Len(payload.shards) :
                   payload.shards[k].guardian_id # box_rec.guardians[i].id
    THEN Some(MissingShardFor(
            box_rec.guardians[CHOOSE i \in 1..Len(box_rec.guardians) :
                /\ \A k \in 1..Len(payload.shards) :
                      payload.shards[k].guardian_id # box_rec.guardians[i].id
                /\ \A j \in 1..(i - 1) : \E k \in 1..Len(payload.shards) :
                      payload.shards[k].guardian_id = box_rec.guardians[j].id].id))
    ELSE None

\* C19: lock answers with the first failure in the order: caller is not the
\* owner (Unauthorized), box already locked, shard count differs from the
\* guardian count, shard_threshold outside 1..number of shards, some
\* guardian without a shard of its id (all BadRequest, told apart by their
\* message); a refused lock makes no store call; and no step other than the
\* return of a successful store call of lock_box adds a box_locked event.
C19_LockCheckOrder ==
    /\ [](\A id \in StoredIds : \A user_id \in OwnerCallers :
            \A payload \in LockBoxRequests :
              LET out == lock_box(boxes[id], user_id, payload, now)
                  failure == FirstLockFailure(Box(id), user_id, payload)
              IN  /\ failure # None => out = failure[1]
                  /\ failure = None => out.status = "Ok" /\ out.call = "update"
                  /\ out.status # "Ok" => out.call = "none")
    /\ [][boxEvents' # boxEvents
          => \E s \in Waiting :
                /\ inflight[s].op = "lock_box"
                /\ inflight'[s] = Idle
                /\ BoxStore_update(boxes, inflight[s].out.rec[1]).status = "Ok"]_vars

\* an unlocked box with guardians g1, g2: a request failing several checks
\* at once is answered with the first of them
C19_Witness ==
    /\ IsSome(boxes["b1"])
    /\ ~Box("b1").is_locked
    /\ Len(Box("b1").guardians) = 2
    /\ Box("b1").guardians[1].id = "g1"
    /\ Box("b1").guardians[2].id = "g2"
    /\ lock_box(boxes["b1"], "g1", [shards |-> <<>>, shard_threshold |-> 0], now) = NotOwner
    /\ lock_box(boxes["b1"], "u1", [shards |-> <<>>, shard_threshold |-> 0], now) = ShardCount
    /\ lock_box(boxes["b1"], "u1",
                [shards |-> <<ShardOf("g1"), ShardOf("")>>, shard_threshold |-> 3], now)
          = ThresholdRange
    /\ lock_box(boxes["b1"], "u1",
                [shards |-> <<ShardOf("g1"), ShardOf("")>>, shard_threshold |-> 2], now)
          = MissingShardFor("g2")

RECURSIVE NonEmptyIds(_)
\* the ids of the guardians that have one, in guardian order
NonEmptyIds(guardians) ==
    IF guardians = <<>> THEN <<>>
    ELSE IF Head(guardians).id = "" THEN NonEmptyIds(Tail(guardians))
    ELSE <<Head(guardians).id>> \o NonEmptyIds(Tail(guardians))

\* C20: persist-then-publish: a box_locked event is added only by a step in
\* which the store write that locks the box succeeds, so whenever a
\* box_locked event for box b exists, b is stored with is_locked = true or
\* has since been deleted; and the event's guardian_ids are exactly the
\* non-empty guardian ids of the box, in guardian order.
C20_PersistThenPublish ==
    /\ [](\A e \in boxEvents :
            \/ boxes[e.box_id] = None
            \/ /\ Box(e.box_id).is_locked
               /\ e.guardian_ids = NonEmptyIds(Box(e.box_id).guardians))
    /\ [][\A e \in boxEvents' \ boxEvents :
            /\ e.event_type = "box_locked"
            /\ boxes[e.box_id] # None /\ ~Box(e.box_id).is_locked
            /\ boxes'[e.box_id] # None /\ boxes'[e.box_id][1].is_locked
            /\ e.guardian_ids = NonEmptyIds(boxes'[e.box_id][1].guardians)]_vars

\* the box with guardians "" and g1 was locked while another request was
\* waiting for the store, and the event names g1 only
C20_Witness ==
    /\ IsSome(boxes["b1"])
    /\ Box("b1").is_locked
    /\ Len(Box("b1").guardians) = 2
    /\ Box("b1").guardians[1].id = ""
    /\ Box("b1").guardians[1].encrypted_shard = Some("c")
    /\ Waiting # {}
    /\ \E e \in boxEvents : e.box_id = "b1" /\ e.guardian_ids = <<"g1">>

\* C21: a failure to publish box_locked neither undoes nor alters the
\* lock: in the step in which lock_box's write succeeds the box is stored
\* as locked with the shards of the request and lock_box answers Ok with
\* that box, whether or not the event was published; and after a lock that
\* answered without publishing, the box is stored locked with every
\* guardian's shard, unless it has since been deleted.
C21_PublishFailureKeepsLock ==
    /\ [][\A s \in Waiting :
            (/\ inflight[s].op = "lock_box"
             /\ inflight'[s] = Idle
             /\ BoxStore_update(boxes, inflight[s].out.rec[1]).status = "Ok")
            => LET rec == inflight[s].out.rec[1]
               IN  /\ boxes'[rec.id] = Some([rec EXCEPT !.version = rec.version + 1])
                   /\ \E sent \in BOOLEAN :
                         /\ sent <=> boxEvents' # boxEvents
                         /\ lockReply' = Some([status |-> "Ok", locked |-> TRUE, sent |-> sent])
                         /\ lock_box_reply(BoxStore_update(boxes, rec), rec.id, sent).body
                               = boxes'[rec.id]]_vars
    /\ [](lockReply = Some([status |-> "Ok", locked |-> TRUE, sent |-> FALSE])
            => \A id \in StoredIds :
                  /\ Box(id).is_locked
                  /\ \A i \in 1..Len(Box(id).guardians) :
                        /\ IsSome(Box(id).guardians[i].encrypted_shard)
                        /\ IsSome(Box(id).guardians[i].shard_hash))

\* lock_box answered Ok although the publish failed: no event is on the
\* bus, and the box is stored locked with its two shards
C21_Witness ==
    /\ lockReply = Some([status |-> "Ok", locked |-> TRUE, sent |-> FALSE])
    /\ boxEvents = {}
    /\ IsSome(boxes["b1"])
    /\ Box("b1").is_locked
    /\ Box("b1").guardians[1].encrypted_shard = Some("c")
    /\ Box("b1").guardians[2].encrypted_shard = Some("a")

\* C22: for every guardian of a locked box whose shard is still held, fetch
\* answers Ok with that guardian's own encrypted_shard and shard_hash and
\* the box's shard_threshold and total_shards, and makes no store call, so
\* the stored box is unchanged and the shard can be fetched again until it
\* is acknowledged.
C22_FetchIsReadOnly ==
    \A id \in LockedIds : \A i \in DOMAIN Box(id).guardians :
        LET guardian == Box(id).guardians[i]
            out == fetch_guardian_shard(boxes[id], guardian.id)
        IN  IsSome(guardian.encrypted_shard)
            => /\ out.status = "Ok"
               /\ out.call = "none"
               /\ out.body[1].encryptedShard = guardian.encrypted_shard[1]
               /\ out.body[1].shardHash = guardian.shard_hash
               /\ Some(out.body[1].shardThreshold) = Box(id).shard_threshold
               /\ Some(out.body[1].totalShards) = Box(id).total_shards

\* time has passed, g1 has acknowledged and accepted, and g2, who has not
\* acknowledged, is still given shard "b"
C22_Witness ==
    /\ IsSome(boxes["b1"])
    /\ now > 1
    /\ IsNone(Box("b1").guardians[1].encrypted_shard)
    /\ IsSome(Box("b1").guardians[1].shard_accepted_at)
    /\ Box("b1").guardians[2].id = "g2"
    /\ fetch_guardian_shard(boxes["b1"], "g2").status = "Ok"
    /\ fetch_guardian_shard(boxes["b1"], "g2").body[1].encryptedShard = "b"

\* C23: fetch for a guardian of a locked box whose encrypted_shard is null
\* answers BadRequest (already fetched) when the guardian's
\* shard_fetched_at is set, and NotFound when it is not set.
C23_FetchOfMissingShard ==
    \A id \in LockedIds : \A i \in DOMAIN Box(id).guardians :
        LET guardian == Box(id).guardians[i]
            out == fetch_guardian_shard(boxes[id], guardian.id)
        IN  (guardian.id # "" /\ IsNone(guardian.encrypted_shard))
            => /\ IsSome(guardian.shard_fetched_at) => out.status = "BadRequest"
               /\ IsNone(guardian.shard_fetched_at) => out.status = "NotFound"

\* C24: acknowledge is idempotent: the step that stores a guardian's first
\* acknowledge stores the shardFetchedAt it answers with; every later
\* acknowledge by that guardian answers Ok with the stored shard_fetched_at
\* and the box's stored shards_fetched and makes no store call; and a
\* guardian's shard_fetched_at, once set, never changes.
C24_AcknowledgeIsIdempotent ==
    /\ [](\A id \in LockedIds : \A i \in DOMAIN Box(id).guardians :
            LET guardian == Box(id).guardians[i]
                out == acknowledge_guardian_shard(boxes[id], guardian.id, now)
            IN  (IsSome(guardian.shard_fetched_at) /\ IsNone(guardian.encrypted_shard))
                => /\ out.status = "Ok"
                   /\ out.call = "none"
                   /\ Some(out.body[1].shardFetchedAt) = guardian.shard_fetched_at
                   /\ Some(out.body[1].shardsFetched) = Box(id).shards_fetched)
    /\ [][\A id \in StoredIds : \A i \in DOMAIN Box(id).guardians :
            LET guardian == Box(id).guardians[i]
                after == boxes'[id][1].guardians[i]
            IN  /\ IsSome(guardian.shard_fetched_at)
                   => after.shard_fetched_at = guardian.shard_fetched_at
                /\ (IsNone(guardian.shard_fetched_at) /\ IsSome(after.shard_fetched_at))
                   => \E s \in Waiting :
                         /\ inflight[s].op = "acknowledge_guardian_shard"
                         /\ inflight'[s] = Idle
                         /\ Some(inflight[s].out.body[1].shardFetchedAt)
                               = after.shard_fetched_at]_vars

\* g1 acknowledged at time 1, g2 later; a repeated acknowledge by g1 now
\* answers with time 1 and the counter 2
C24_Witness ==
    /\ IsSome(boxes["b1"])
    /\ now > 1
    /\ Box("b1").guardians[1].shard_fetched_at = Some(1)
    /\ Box("b1").guardians[2].shard_fetched_at = Some(now)
    /\ acknowledge_guardian_shard(boxes["b1"], "g1", now).body
          = Some([shardFetchedAt |-> 1, totalShards |-> 2, shardsFetched |-> 2])

\* the guardians of a box whose acknowledge has been stored
Acknowledged(box_rec) ==
    {i \in DOMAIN box_rec.guardians : IsSome(box_rec.guardians[i].shard_fetched_at)}

\* every shard of the box has been acknowledged and deleted from the server
AllShardsDeleted(box_rec) ==
    /\ box_rec.shards_fetched = Some(Len(box_rec.guardians))
    /\ box_rec.total_shards = Some(Len(box_rec.guardians))
    /\ IsSome(box_rec.shards_deleted_at)
    /\ \A i \in DOMAIN box_rec.guardians : IsNone(box_rec.guardians[i].encrypted_shard)

\* C25: for the box locked with N guardians, as soon as the acknowledge of
\* every guardian has completed, in whatever order and however the
\* requests raced, the box has shards_fetched = total_shards = N,
\* shards_deleted_at set and no encrypted_shard left, and it stays so;
\* shards_deleted_at is not set while any guardian's shard is still held;
\* and shards_fetched always counts the stored acknowledgements.
C25_AllShardsEventuallyDeleted ==
    /\ [](\A id \in LockedIds :
            /\ Acknowledged(Box(id)) = DOMAIN Box(id).guardians
               => AllShardsDeleted(Box(id))
            /\ (\E i \in DOMAIN Box(id).guardians : IsSome(Box(id).guardians[i].encrypted_shard))
               => IsNone(Box(id).shards_deleted_at)
            /\ Box(id).shards_fetched = Some(Cardinality(Acknowledged(Box(id)))))
    /\ [][\A id \in LockedIds :
            AllShardsDeleted(Box(id))
            => /\ IsSome(boxes'[id])
               /\ AllShardsDeleted(boxes'[id][1])
               /\ boxes'[id][1].shards_deleted_at = Box(id).shards_deleted_at]_vars

\* g1 acknowledged at time 1 and g2 at a later time: both shards are gone
\* and shards_deleted_at is the time of the second acknowledge
C25_Witness ==
    /\ IsSome(boxes["b1"])
    /\ Len(Box("b1").guardians) = 2
    /\ Box("b1").guardians[1].shard_fetched_at = Some(1)
    /\ IsSome(Box("b1").guardians[2].shard_fetched_at)
    /\ Box("b1").guardians[2].shard_fetched_at # Some(1)
    /\ Box("b1").shards_deleted_at = Box("b1").guardians[2].shard_fetched_at
    /\ AllShardsDeleted(Box("b1"))

\* C26: accept is idempotent: for a guardian whose shard_accepted_at is
\* set, an accept answers Ok with that stored value and calls the store
\* for nothing; for a guardian without it, an accept asks the store to set
\* it to the current time; and no step on a box that stays stored changes
\* or clears a shard_accepted_at that is set, the first one being set by an
\* accept that answers with it.
C26_AcceptIsIdempotent ==
    /\ [](\A id \in LockedIds : \A i \in DOMAIN Box(id).guardians :
            LET guardian == Box(id).guardians[i]
                out == accept_guardian_shard(boxes[id], guardian.id, now)
            IN  IF IsSome(guardian.shard_accepted_at)
                THEN /\ out.status = "Ok"
                     /\ out.call = "none"
                     /\ Some(out.body[1].shardAcceptedAt) = guardian.shard_accepted_at
                ELSE /\ out.call = "update"
                     /\ out.rec[1].guardians[i].shard_accepted_at = Some(now)
                     /\ out.body = Some([shardAcceptedAt |-> now]))
    /\ [][\A id \in StoredIds : \A i \in DOMAIN Box(id).guardians :
            LET guardian == Box(id).guardians[i]
            IN  /\ (IsSome(guardian.shard_accepted_at) /\ IsSome(boxes'[id]))
                   => /\ i \in DOMAIN boxes'[id][1].guardians
                      /\ boxes'[id][1].guardians[i].shard_accepted_at
                            = guardian.shard_accepted_at
                /\ (/\ IsNone(guardian.shard_accepted_at)
                    /\ IsSome(boxes'[id])
                    /\ i \in DOMAIN boxes'[id][1].guardians
                    /\ IsSome(boxes'[id][1].guardians[i].shard_accepted_at))
                   => \E s \in Waiting :
                         /\ inflight[s].op = "accept_guardian_shard"
                         /\ inflight'[s] = Idle
                         /\ Some(inflight[s].out.body[1].shardAcceptedAt)
                               = boxes'[id][1].guardians[i].shard_accepted_at]_vars

\* g1 accepted at time 1, time has passed, and a second accept by g1 answers
\* with time 1
C26_Witness ==
    /\ IsSome(boxes["b1"])
    /\ now > 1
    /\ Box("b1").guardians[1].shard_accepted_at = Some(1)
    /\ accept_guardian_shard(boxes["b1"], "g1", now).body = Some([shardAcceptedAt |-> 1])
    /\ accept_guardian_shard(boxes["b1"], "g1", now).call = "none"

\* the entries of the running or last sweep's log
LogEntries == {sweep.log[i] : i \in DOMAIN sweep.log}

\* the hours of table B4 and the reminder numbers it gives for them
TableHours == <<0, 23, 24, 29, 30, 71, 72, 77, 78, 167, 168, 173, 174, 200>>
TableNumbers == <<0, 0, 1, 1, 0, 0, 2, 2, 0, 0, 3, 3, 0, 0>>

\* the reminder number the windows 24..29, 72..77 and 168..173 give to h
WindowOf(h) ==
    IF 24 <= h /\ h < 30 THEN 1
    ELSE IF 72 <= h /\ h < 78 THEN 2
    ELSE IF 168 <= h /\ h < 174 THEN 3
    ELSE 0

RemindersOf(box_id, guardian_id) ==
    LET sent == SelectSeq(reminders, LAMBDA r :
                    r.box_id = box_id /\ r.guardian_id = guardian_id)
    IN  [i \in DOMAIN sent |-> sent[i].reminder_number]

\* the guardians of the stored boxes, as pairs of box id and guardian id
StoredGuardians ==
    {<<id, boxes[id][1].guardians[i].id>> :
        id \in {b \in DOMAIN boxes : IsSome(boxes[b])}, i \in {1, 2}}

\* the time from which the reminders of a guardian of a stored box count
ShardSentAt(box_id, guardian_id) ==
    LET box_rec == boxes[box_id][1]
        guardian == box_rec.guardians[GuardianIndex(box_rec.guardians, guardian_id)]
    IN  IF IsSome(guardian.lock_data_received_at)
        THEN guardian.lock_data_received_at[1]
        ELSE box_rec.locked_at[1]

SweepInstants == {t \in 0..MaxSweepClock : t % SweepHours = 0}

\* C29: a guardian whose shard_accepted_at is set in the store gets no
\* reminder from any sweep that starts afterwards: at whatever instant a
\* pass over the stored box is made, and even if every lookup and send
\* succeeds, the pass has no entry for that guardian; the scan with which a
\* sweep starts sees every shard_accepted_at that is in the store at that
\* moment; the boxes a sweep found do not change while it runs; and every
\* reminder a sweep sends goes to a guardian without shard_accepted_at in
\* the box the sweep found.
C29_AcceptStopsReminders ==
    /\ [](\A id \in {b \in DOMAIN boxes : IsSome(boxes[b])} :
            \A i \in DOMAIN boxes[id][1].guardians :
               IsSome(boxes[id][1].guardians[i].shard_accepted_at)
               => \A t \in SweepInstants :
                     LET out == process_box(boxes[id][1],
                                            [j \in DOMAIN boxes[id][1].guardians |-> "sent"], t)
                     IN  \A k \in DOMAIN out.log :
                            out.log[k].guardian_id # boxes[id][1].guardians[i].id)
    /\ [][sweep'.at # sweep.at
          => \A k \in DOMAIN sweep'.found :
                LET found == sweep'.found[k]
                    stored == boxes[found.id][1]
                IN  \A i \in DOMAIN stored.guardians :
                       IsSome(stored.guardians[i].shard_accepted_at)
                       => found.guardians[i].shard_accepted_at
                             = stored.guardians[i].shard_accepted_at]_vars
    /\ [][sweep.pc = "running" => sweep'.found = sweep.found /\ sweep'.at = sweep.at]_vars
    /\ [][\A r \in DOMAIN reminders' :
            r > Len(reminders)
            => LET found == sweep.found[sweep.next]
               IN  /\ found.id = reminders'[r].box_id
                   /\ \E i \in DOMAIN found.guardians :
                         /\ found.guardians[i].id = reminders'[r].guardian_id
                         /\ found.guardians[i].shard_accepted_at = None]_vars

\* g1 of box b1 accepted before the sweep at time 30, which then sent
\* reminder 1 to g2 of b1 and to g1 of b2 and nothing to g1 of b1
C29_Witness ==
    /\ IsSome(boxes["b1"][1].guardians[1].shard_accepted_at)
    /\ sweep.pc = "idle"
    /\ sweep.at = Some(30)
    /\ RemindersOf("b1", "g1") = <<>>
    /\ RemindersOf("b1", "g2") = <<1>>
    /\ RemindersOf("b2", "g1") = <<1>>
    /\ \A e \in LogEntries : ~(e.box_id = "b1" /\ e.guardian_id = "g1")

\* the guardians of a box found by the sweep that were due a reminder at
\* the sweep's time
DueIn(found) ==
    {i \in DOMAIN found.guardians :
        /\ found.guardians[i].shard_accepted_at = None
        /\ WindowOf(sweep.at[1]
                    - (IF IsSome(found.guardians[i].lock_data_received_at)
                       THEN found.guardians[i].lock_data_received_at[1]
                       ELSE found.locked_at[1])) # 0}

\* the sweep looked up the push token of the guardian of the box
Attempted(box_id, guardian_id) ==
    \E e \in LogEntries :
        /\ e.box_id = box_id
        /\ e.guardian_id = guardian_id
        /\ e.outcome \in PushOutcomes

\* C30 (as claimed): whatever lookup or send failed in a sweep, once the
\* sweep has processed a box, every guardian of that box who was due a
\* reminder has had the reminder attempted.
C30_ErrorsDoNotStopSweep ==
    sweep.at # None
    => \A k \in 1..(sweep.next - 1) :
          \A i \in DueIn(sweep.found[k]) :
             Attempted(sweep.found[k].id, sweep.found[k].guardians[i].id)

\* the entries of the sweep's log for a box
LogOf(box_id) == {e \in LogEntries : e.box_id = box_id}

Range(seq) == {seq[i] : i \in DOMAIN seq}

\* the record is one the worker has to skip: it does not parse, is no
\* box_locked event, lists no guardian, or its lookup or send fails
Skipped(record, fault) ==
    \/ ~record.parsed
    \/ record.event_type # "box_locked"
    \/ record.guardian_ids = <<>>
    \/ fault \in {"lookup", "send"}

\* C32: whatever the batch, the notification handler returns success and
\* has handled every record of it; for a record that does not parse, is
\* not a box_locked event, lists no guardian, or whose token lookup or
\* push send fails, nothing is sent, and for every other record the
\* notification goes to the listed guardians that have a token.
C32_BatchNeverFails ==
    notify # None
    => LET batch == notify[1]
       IN  /\ batch.status = "Ok"
           /\ Len(batch.log) = Len(batch.records)
           /\ \A i \in DOMAIN batch.records :
                 IF Skipped(batch.records[i], batch.faults[i])
                 THEN batch.log[i].sent = <<>>
                 ELSE Range(batch.log[i].sent)
                         = Range(batch.records[i].guardian_ids) \cap pushTokens

\* a batch whose first record's token lookup failed and whose second
\* record was sent to g1 and g2, the handler returning success
C32_Witness ==
    /\ notify # None
    /\ Len(notify[1].records) = 2
    /\ notify[1].records[1].parsed
    /\ notify[1].records[1].event_type = "box_locked"
    /\ notify[1].records[1].guardian_ids = <<"g1", "g2">>
    /\ notify[1].faults = <<"lookup", "none">>
    /\ notify[1].log[1] = [handled |-> "TokenLookupFailed", sent |-> <<>>]
    /\ notify[1].log[2].sent = <<"g1", "g2">>
    /\ notify[1].status = "Ok"

\* the waiting requests whose store call, an update, returns in this step
ReturningUpdates ==
    {s \in Waiting : inflight[s].out.call = "update" /\ inflight'[s] = Idle}

\* C33: the update a request makes with the version it read commits if the
\* stored box still has that version, storing the request's record with
\* the version increased by one, and otherwise writes nothing; so of two
\* requests that read the same version one commits and the other, finding
\* the version changed, does not; a stored version never decreases; and no
\* stored box has an acknowledged guardian with its encrypted_shard back
\* or a shards_fetched below the number of guardians with
\* shard_fetched_at set.
C33_VersionCheckSerialises ==
    /\ [][\A s \in ReturningUpdates :
            LET rec == inflight[s].out.rec[1]
            IN  IF IsSome(boxes[rec.id]) /\ boxes[rec.id][1].version = rec.version
                THEN boxes'[rec.id] = Some([rec EXCEPT !.version = rec.version + 1])
                ELSE boxes' = boxes]_vars
    /\ [][\A id \in StoredIds :
            IsSome(boxes'[id])
            => \/ boxes'[id] = boxes[id]
               \/ boxes'[id][1].version = Box(id).version + 1]_vars
    /\ [](\A s, u \in Waiting :
            (/\ s # u
             /\ inflight[s].out.call = "update"
             /\ inflight[u].out.call = "update"
             /\ inflight[s].out.rec[1].id = inflight[u].out.rec[1].id
             /\ inflight[s].out.rec[1].version = inflight[u].out.rec[1].version)
            => LET first == BoxStore_update(boxes, inflight[s].out.rec[1])
                   second == BoxStore_update(first.store, inflight[u].out.rec[1])
               IN  first.status = "Ok" => second.status = "Conflict" /\ second.store = first.store)
    /\ [](\A id \in LockedIds :
            /\ \A i \in DOMAIN Box(id).guardians :
                  IsSome(Box(id).guardians[i].shard_fetched_at)
                  => IsNone(Box(id).guardians[i].encrypted_shard)
            /\ FetchedCount(Box(id).guardians) > 0
               => Box(id).shards_fetched = Some(FetchedCount(Box(id).guardians)))

\* g1 and g2 acknowledged at once from the same version: g1's write has
\* been stored and g2's request, still waiting, holds the older version and
\* a record in which g1 has its shard
C33_Witness ==
    /\ IsSome(boxes["b1"])
    /\ IsSome(Box("b1").guardians[1].shard_fetched_at)
    /\ IsNone(Box("b1").guardians[2].shard_fetched_at)
    /\ \E s \in Waiting :
          /\ inflight[s].op = "acknowledge_guardian_shard"
          /\ inflight[s].out.call = "update"
          /\ inflight[s].out.rec[1].version + 1 = Box("b1").version
          /\ IsSome(inflight[s].out.rec[1].guardians[1].encrypted_shard)
          /\ IsSome(inflight[s].out.rec[1].guardians[2].shard_fetched_at)
          /\ BoxStore_update(boxes, inflight[s].out.rec[1]).status = "Conflict"

\* the guardians of a box that have the key as their id, and those that
\* have it as their invitation_id
WithId(box_rec, key) == {i \in DOMAIN box_rec.guardians : box_rec.guardians[i].id = key}
WithInvitation(box_rec, key) ==
    {i \in DOMAIN box_rec.guardians : box_rec.guardians[i].invitation_id = key}

\* C34 (as claimed): on a stored unlocked box, delete guardian with a key
\* removes and returns the guardian that has the key as its id if there is
\* one, wherever it stands in the list; only if there is none, a guardian
\* that has the key as its invitation_id; in both cases exactly one
\* guardian, the others keeping their order; and it answers NotFound and
\* calls the store for nothing when no guardian matches.
C34_DeleteMatchesIdFirst ==
    \A id \in StoredIds : \A key \in GuardianKeyValues :
        LET box_rec == Box(id)
            out == delete_guardian_from_box(boxes[id], box_rec.owner_id, key)
            matched == IF WithId(box_rec, key) # {} THEN WithId(box_rec, key)
                       ELSE WithInvitation(box_rec, key)
        IN  ~box_rec.is_locked
            => IF matched = {}
               THEN out.status = "NotFound" /\ out.call = "none"
               ELSE /\ out.call = "update"
                    /\ \E i \in matched :
                          /\ out.body = Some(box_rec.guardians[i])
                          /\ out.rec[1].guardians = RemoveAt(box_rec.guardians, i)

\* what fetch, acknowledge and accept answer to a caller for a stored box
GuardianAnswers(id, caller) ==
    {fetch_guardian_shard(boxes[id], caller),
     acknowledge_guardian_shard(boxes[id], caller, now),
     accept_guardian_shard(boxes[id], caller, now)}

\* C35: for a stored box that is not locked, fetch, acknowledge and accept
\* answer BadRequest to every caller, guardian or not, and call the store
\* for nothing; for a locked box they answer Unauthorized to a caller
\* whose id is no guardian's id, and call the store for nothing; and to a
\* caller who is a guardian, fetch returns that guardian's own shard and
\* hash, and the record acknowledge or accept hands to the store differs
\* from the stored one in no other guardian.
C35_GuardianEndpointsGuarded ==
    \A id \in StoredIds : \A caller \in GuardianCallers :
        LET box_rec == Box(id)
            own == {i \in DOMAIN box_rec.guardians : box_rec.guardians[i].id = caller}
        IN  IF ~box_rec.is_locked
            THEN \A out \in GuardianAnswers(id, caller) :
                    out.status = "BadRequest" /\ out.call = "none"
            ELSE IF own = {}
            THEN \A out \in GuardianAnswers(id, caller) :
                    out.status = "Unauthorized" /\ out.call = "none"
            ELSE /\ Cardinality(own) = 1
                 /\ \A i \in own :
                       LET fetched == fetch_guardian_shard(boxes[id], caller)
                       IN  fetched.status = "Ok"
                           => /\ Some(fetched.body[1].encryptedShard)
                                    = box_rec.guardians[i].encrypted_shard
                              /\ fetched.body[1].shardHash = box_rec.guardians[i].shard_hash
                 /\ \A out \in GuardianAnswers(id, caller) :
                       out.call # "none"
                       => /\ out.call = "update"
                          /\ DOMAIN out.rec[1].guardians = DOMAIN box_rec.guardians
                          /\ \A j \in DOMAIN box_rec.guardians \ own :
                                out.rec[1].guardians[j] = box_rec.guardians[j]

\* the box is locked with g1 and g2 holding different shards: g1's fetch
\* returns g1's shard, u1's fetch is Unauthorized, and g1's acknowledge
\* goes to the store
C35_Witness ==
    /\ IsSome(boxes["b1"])
    /\ Box("b1").is_locked
    /\ Len(Box("b1").guardians) = 2
    /\ Box("b1").guardians[1].encrypted_shard = Some("a")
    /\ Box("b1").guardians[2].encrypted_shard = Some("b")
    /\ fetch_guardian_shard(boxes["b1"], "g1").body[1].encryptedShard = "a"
    /\ fetch_guardian_shard(boxes["b1"], "u1").status = "Unauthorized"
    /\ acknowledge_guardian_shard(boxes["b1"], "g1", now).call = "update"

\* what the owner endpoints answer to a caller for a stored box, over the
\* requests the caller can send
OwnerAnswers(id, caller) ==
    {get_box(boxes[id], caller), delete_box(boxes[id], caller)}
    \cup {update_box(boxes[id], caller, payload, now) : payload \in SentUpdateBoxRequests}
    \cup {lock_box(boxes[id], caller, payload, now) : payload \in SentLockBoxRequests}
    \cup {update_or_add_guardian(boxes[id], caller, guardian) : guardian \in SentGuardians}
    \cup {delete_guardian_from_box(boxes[id], caller, key) :
             key \in GuardianIds \cup InvitationIds}
    \cup {update_or_add_document(boxes[id], caller, document) : document \in DocumentPayloads}
    \cup {delete_document_from_box(boxes[id], caller, document_id) :
             document_id \in DocumentIds}

\* C36: for a stored box, locked or not, every owner endpoint answers
\* Unauthorized to a caller who is not its owner, whatever the request,
\* and calls the store for nothing; and no step changes the owner_id of a
\* box that stays stored.
C36_OnlyOwnerChanges ==
    /\ [](\A id \in StoredIds : \A caller \in OwnerCallers \cup GuardianCallers :
            caller # Box(id).owner_id
            => \A out \in OwnerAnswers(id, caller) :
                  out.status = "Unauthorized" /\ out.call = "none")
    /\ [][\A id \in StoredIds :
            IsSome(boxes'[id]) => boxes'[id][1].owner_id = Box(id).owner_id]_vars

\* u1's box is locked and g1 is one of its guardians: g1's lock and delete
\* requests are answered Unauthorized, not BadRequest
C36_Witness ==
    /\ IsSome(boxes["b1"])
    /\ Box("b1").owner_id = "u1"
    /\ Box("b1").is_locked
    /\ \E i \in DOMAIN Box("b1").guardians : Box("b1").guardians[i].id = "g1"
    /\ delete_box(boxes["b1"], "g1").status = "Unauthorized"
    /\ \A payload \in SentLockBoxRequests :
          lock_box(boxes["b1"], "g1", payload, now).status = "Unauthorized"
    /\ delete_box(boxes["b1"], "u1").call = "delete"

\* C37: the guardians of a stored box have pairwise distinct ids, the empty
\* id included, and an upsert of a guardian whose id is already in the
\* box hands the store a list of the same length with the new guardian
\* in the old one's place and every other guardian as it was.
C37_GuardianIdsDistinct ==
    \A id \in StoredIds :
        LET guardians == Box(id).guardians
        IN  /\ \A i, j \in DOMAIN guardians :
                  guardians[i].id = guardians[j].id => i = j
            /\ ~Box(id).is_locked
               => \A guardian \in KeyedGuardians :
                     LET out == update_or_add_guardian(boxes[id], Box(id).owner_id, guardian)
                         at == GuardianIndex(guardians, guardian.id)
                     IN  at # 0
                         => /\ out.call = "update"
                            /\ Len(out.rec[1].guardians) = Len(guardians)
                            /\ \A i \in DOMAIN guardians :
                                  out.rec[1].guardians[i] =
                                      IF i = at THEN guardian ELSE guardians[i]

\* the box holds a guardian with an empty id and invitation i1 next to another
\* guardian, and an upsert of an empty id with invitation g1 is waiting at the
\* store with the placeholder replaced
C37_Witness ==
    /\ IsSome(boxes["b1"])
    /\ Len(Box("b1").guardians) >= 2
    /\ \E i \in DOMAIN Box("b1").guardians :
          /\ Box("b1").guardians[i].id = ""
          /\ Box("b1").guardians[i].invitation_id = "i1"
          /\ \E s \in Slots :
                /\ inflight[s] # Idle
                /\ inflight[s].op = "update_guardian"
                /\ Len(inflight[s].out.rec[1].guardians) = Len(Box("b1").guardians)
                /\ inflight[s].out.rec[1].guardians[i].id = ""
                /\ inflight[s].out.rec[1].guardians[i].invitation_id = "g1"

\* the stored, unlocked boxes without guardians
Unguarded == {id \in StoredIds : ~Box(id).is_locked /\ Len(Box(id).guardians) = 0}

\* C38: for an unlocked box without guardians, the owner's lock request
\* is refused with BadRequest and no store call whatever its shards and
\* threshold (by the threshold check when the shard list is empty, by the
\* shard count check otherwise), and a lock request returning from the
\* store leaves such a box unlocked.
C38_NoLockWithoutGuardians ==
    /\ [](\A id \in Unguarded : \A payload \in LockBoxRequests :
            lock_box(boxes[id], Box(id).owner_id, payload, now) =
                IF Len(payload.shards) = 0 THEN ThresholdRange ELSE ShardCount)
    /\ [][\A id \in Unguarded :
            Returning("lock_box") /\ IsSome(boxes'[id]) => ~boxes'[id][1].is_locked]_vars

\* the box has lost its guardians while a lock request that read it with
\* guardians waits at the store
C38_Witness ==
    /\ "b1" \in Unguarded
    /\ \E s \in Slots :
          /\ inflight[s] # Idle
          /\ inflight[s].op = "lock_box"
          /\ Len(inflight[s].out.rec[1].guardians) > 0
          /\ inflight[s].out.rec[1].id = "b1"

\* the box_locked events published for a box
LockEvents(id) == {e \in boxEvents : e.event_type = "box_locked" /\ e.box_id = id}

\* C39: at most one box_locked event exists for a box; a lock request on a
\* locked box is refused before the store is called, so before anything is
\* published; a lock request whose store write fails publishes nothing;
\* and an event is only added for a box that has none yet.
C39_OneLockEvent ==
    /\ [](\A id \in BoxIds : Cardinality(LockEvents(id)) <= 1)
    /\ [](\A id \in LockedIds : \A payload \in LockBoxRequests :
            lock_box(boxes[id], Box(id).owner_id, payload, now) = AlreadyLocked)
    /\ [][\A s \in Waiting :
            (/\ inflight[s].op = "lock_box"
             /\ inflight'[s] = Idle
             /\ BoxStore_update(boxes, inflight[s].out.rec[1]).status # "Ok")
            => boxEvents' = boxEvents]_vars
    /\ [][\A e \in boxEvents' \ boxEvents : LockEvents(e.box_id) = {}]_vars

\* two lock requests read the box unlocked; one committed and published,
\* the other came back from the store with an error and published nothing
C39_Witness ==
    /\ IsSome(boxes["b1"])
    /\ Box("b1").is_locked
    /\ Cardinality(LockEvents("b1")) = 1
    /\ IsSome(lockReply)
    /\ lockReply[1].status # "Ok"
    /\ ~lockReply[1].sent

\* the custody fields of a guardian
Custody(guardian) == <<guardian.encrypted_shard, guardian.shard_fetched_at>>

\* a box record without what an accept may set
BesidesAcceptance(rec) ==
    [rec EXCEPT !.version = 0, !.updated_at = 0,
                !.guardians = [j \in DOMAIN @ |-> [@[j] EXCEPT !.shard_accepted_at = None]]]

\* C40: for a locked box and each of its guardians, whether or not the
\* guardian has acknowledged: an accept that was not given before succeeds
\* and hands the store the box as stored with only that guardian's
\* shard_accepted_at and the box's updated_at set to now; an acknowledge
\* that writes leaves every shard_accepted_at and every other guardian's
\* encrypted_shard and shard_fetched_at as stored. And in the step in which
\* either request returns from the store: an accept leaves the box as it
\* was but for version, updated_at and shard_accepted_at, and an
\* acknowledge leaves every shard_accepted_at as it was and changes the
\* custody fields of at most one guardian.
C40_CustodyAndAcceptanceIndependent ==
    /\ [](\A id \in LockedIds : \A i \in DOMAIN Box(id).guardians :
            LET guardian == Box(id).guardians[i]
                accepted == accept_guardian_shard(boxes[id], guardian.id, now)
                acknowledged == acknowledge_guardian_shard(boxes[id], guardian.id, now)
            IN  /\ accepted.status = "Ok"
                /\ IsNone(guardian.shard_accepted_at)
                   => /\ accepted.call = "update"
                      /\ accepted.rec[1] =
                            [Box(id) EXCEPT !.guardians[i].shard_accepted_at = Some(now),
                                            !.updated_at = now]
                /\ acknowledged.call # "none"
                   => /\ DOMAIN acknowledged.rec[1].guardians = DOMAIN Box(id).guardians
                      /\ \A j \in DOMAIN Box(id).guardians :
                            /\ acknowledged.rec[1].guardians[j].shard_accepted_at
                                  = Box(id).guardians[j].shard_accepted_at
                            /\ j # i => Custody(acknowledged.rec[1].guardians[j])
                                           = Custody(Box(id).guardians[j]))
    /\ [][\A id \in StoredIds :
            /\ Returning("accept_guardian_shard")
               => /\ IsSome(boxes'[id])
                  /\ BesidesAcceptance(boxes'[id][1]) = BesidesAcceptance(Box(id))
            /\ Returning("acknowledge_guardian_shard")
               => /\ IsSome(boxes'[id])
                  /\ DOMAIN boxes'[id][1].guardians = DOMAIN Box(id).guardians
                  /\ \A j \in DOMAIN Box(id).guardians :
                        boxes'[id][1].guardians[j].shard_accepted_at
                           = Box(id).guardians[j].shard_accepted_at
                  /\ Cardinality({j \in DOMAIN Box(id).guardians :
                                     Custody(boxes'[id][1].guardians[j])
                                        # Custody(Box(id).guardians[j])}) <= 1]_vars

\* g1 has accepted without acknowledging and still has its shard at the
\* service; g2 has acknowledged without accepting
C40_Witness ==
    /\ IsSome(boxes["b1"])
    /\ Box("b1").is_locked
    /\ IsSome(Box("b1").guardians[1].shard_accepted_at)
    /\ IsSome(Box("b1").guardians[1].encrypted_shard)
    /\ IsNone(Box("b1").guardians[1].shard_fetched_at)
    /\ IsNone(Box("b1").guardians[2].shard_accepted_at)
    /\ IsNone(Box("b1").guardians[2].encrypted_shard)
    /\ IsSome(Box("b1").guardians[2].shard_fetched_at)

====
